---- MODULE Spec2Model ----
(***************************************************************************)
(* State-machine model of the ouro-fi perpetual-futures contracts:         *)
(*   src/contracts/PerpetualDEX.py       (PerpetualDEX)                    *)
(*   src/contracts/OuroDEX.py            (OuroDEX)                         *)
(*   src/contracts/FundingRateManager.py (FundingRateManager)              *)
(*   src/contracts/PriceOracle.py        (PriceOracle, the price feed)     *)
(*   src/contracts/OuroOracle.py         (OuroOracle, the price feed)      *)
(*   src/contracts/OuroOrderBook.py      (OuroOrderBook)                   *)
(*                                                                         *)
(* The contracts are deployed separately and never call each other, so a   *)
(* behaviour follows one deployed contract; the variable `contract` names  *)
(* it.  Spec follows either DEX variant, SpecFunding the funding manager,  *)
(* SpecProtocol any of the three, SpecOrderBook the order book,            *)
(* SpecPriceFeed a DEX variant next to the oracle that publishes prices    *)
(* for it, and SpecOracle either oracle on its own.                        *)
(*                                                                         *)
(* Arithmetic.  A value the source types UInt64 lies in 0 .. 2^64-1; an    *)
(* operation on UInt64 operands whose result would be negative, and a      *)
(* division by zero, make the AVM reject the whole call.  A rejected call  *)
(* is never included in a block: it changes nothing and leaves no trace,   *)
(* so it is a step that leaves every variable unchanged, and the           *)
(* ...Error operators name the assertion a call would fail on.  An         *)
(* expression with an Int64 operand is signed.  `//` is Python's floor     *)
(* division; `/` on integers is integer division that truncates toward     *)
(* zero.  TLC's integers are 32 bits wide, so the default prices of the    *)
(* source (4000_00000000) are carried in units of PRICE_UNIT = 10^7; no    *)
(* product of the model comes near 2^31 and none near 2^64 in the source.  *)
(***************************************************************************)
EXTENDS Integers, Sequences, FiniteSets, TLC

VARIABLES
    contract,               \* which contract this behaviour follows
    now,                    \* Global.latest_timestamp
    last,                   \* the most recent call that was accepted
    opens,                  \* how many positions have been opened so far
    \* ---- PerpetualDEX
    fee_collector,
    trading_fee,
    max_leverage,
    usdc_asset_id,
    positions_box,          \* position id -> PerpPosition
    funding_rates_box,      \* symbol -> FundingRate
    total_long_positions,   \* symbol -> UInt64
    total_short_positions,  \* symbol -> UInt64
    \* ---- OuroDEX
    oracle_contract,
    ouro_usdc_asset_id,
    config,                 \* GlobalConfig
    ouro_positions,         \* box storage: position id -> Position
    \* ---- FundingRateManager
    perp_dex_app_id,
    default_base_rate,
    default_max_rate,
    default_interval,
    markets_box,            \* symbol -> MarketData
    \* ---- PriceOracle
    authorized_updaters,    \* the accounts mapped to True
    prices_box,             \* symbol -> PriceData
    max_price_age,
    min_confidence,
    \* ---- OuroOracle
    oracle_config,          \* OracleConfig
    oracle_boxes,           \* box storage: price key or publisher key -> value
    \* ---- OuroOrderBook
    book_config,            \* OrderBookConfig
    book_boxes              \* box storage: pair key or pool key -> value

perpVars == <<fee_collector, trading_fee, max_leverage, usdc_asset_id, positions_box,
              funding_rates_box, total_long_positions, total_short_positions>>
ouroVars == <<oracle_contract, ouro_usdc_asset_id, config, ouro_positions>>
fundVars == <<perp_dex_app_id, default_base_rate, default_max_rate, default_interval,
              markets_box>>
feedVars == <<authorized_updaters, prices_box, max_price_age, min_confidence,
              oracle_config, oracle_boxes>>
bookVars == <<book_config, book_boxes>>
vars == <<contract, now, last, opens, perpVars, ouroVars, fundVars, feedVars, bookVars>>

----------------------------------------------------------------------------
(* Bounds of the model *)

\* a behaviour opens at most MaxOpens positions
MaxOpens == 2
\* |cumulative_funding| stays within MaxCumulative
MaxCumulative == 200
\* open-interest inputs of the funding manager run over 0 .. MaxOI
MaxOI == 3
\* a pool's total_liquidity stays within MaxLiquidity
MaxLiquidity == 2
\* the oracles are followed until Global.latest_timestamp = MaxOracleTime
MaxOracleTime == 2

----------------------------------------------------------------------------
(* The environment: accounts, symbols, transaction inputs *)

\* Global.creator_address deploys (and administers) the contract
Creator == "creator"
Accounts == {Creator, "alice"}
\* the accounts that open positions
Traders == {"alice"}
Symbols == {"ETH"}
\* Global.current_application_address
AppAddress == "app"
\* the block timestamps a behaviour passes through
Times == {0, 1}

\* the grouped payment transactions tried: a well-formed payment of each amount,
\* one to another receiver and one in another asset
Payments(amounts) ==
    {[receiver |-> AppAddress, asset_id |-> 0, amount |-> a] : a \in amounts}
    \cup {[receiver |-> "elsewhere", asset_id |-> 0, amount |-> 200],
          [receiver |-> AppAddress, asset_id |-> 7, amount |-> 200]}

Max(a, b) == IF a >= b THEN a ELSE b
Abs(a) == IF a >= 0 THEN a ELSE -a

\* Python's `//`: floor division (TLA+ \div floors for a positive divisor)
FloorDiv(a, b) == IF b > 0 THEN a \div b ELSE (-a) \div (-b)
\* `/` on integers: the quotient truncated toward zero
TruncDiv(a, b) ==
    IF (a >= 0) = (b > 0) THEN Abs(a) \div Abs(b) ELSE -(Abs(a) \div Abs(b))

AccountIx(a) == CASE a = Creator -> 0 [] a = "alice" -> 1
SymbolIx(s) == CASE s = "ETH" -> 0

\* hash(trader.bytes + symbol.bytes + itob(timestamp)): a digest of exactly these
\* three inputs, distinct for distinct inputs (an ideal hash)
HashId(trader, symbol, timestamp) ==
    (AccountIx(trader) * 2 + SymbolIx(symbol)) * 10 + timestamp + 1

\* the identifiers a caller names
IdSpace == {HashId(a, s, t) : a \in Traders, s \in Symbols, t \in Times}

\* an accepted call: the operation, the position it named, the value returned,
\* the inner asset transfers <<receiver, amount>> it submitted, in order, and
\* (for a close) the amounts that close computed
Outcome(op, id, ret, transfers, closed) ==
    [op |-> op, id |-> id, ret |-> ret, transfers |-> transfers, closed |-> closed]
NoCall == Outcome("none", 0, 0, <<>>, <<>>)

\* box and mapping storage
Put(m, k, v) == [x \in DOMAIN m \cup {k} |-> IF x = k THEN v ELSE m[x]]
Remove(m, k) == [x \in DOMAIN m \ {k} |-> m[x]]

----------------------------------------------------------------------------
(* PerpetualDEX *)

maintenance_margin_ratio == 500
liquidation_fee_ratio == 500
\* _get_oracle_price: the mock price 4000_00000000, in units of PRICE_UNIT
MockOraclePrice == 40000

PerpGetOraclePrice(symbol) == MockOraclePrice

PerpCalculateLiquidationPrice(entry_price, leverage, is_long) ==
    IF is_long
    THEN (entry_price * (10000 - (10000 \div leverage) + maintenance_margin_ratio)) \div 10000
    ELSE (entry_price * (10000 + (10000 \div leverage) - maintenance_margin_ratio)) \div 10000

PerpCalculatePnl(position, current_price) ==
    LET price_diff == current_price - position.entry_price IN
    IF position.is_long
    THEN FloorDiv(price_diff * position.size, position.entry_price)
    ELSE FloorDiv((-price_diff) * position.size, position.entry_price)

GetCurrentFundingIndex(symbol) ==
    IF symbol \in DOMAIN funding_rates_box
    THEN Max(0, funding_rates_box[symbol].cumulative_funding)
    ELSE 0

\* funding_diff is a UInt64 difference: negative means the call is rejected
FundingDiff(position) == GetCurrentFundingIndex(position.symbol) - position.funding_index
PerpCalculateFundingFee(position) == (position.size * FundingDiff(position)) \div 10000

PerpShouldLiquidate(position, current_price) ==
    IF position.is_long
    THEN current_price <= position.liquidation_price
    ELSE current_price >= position.liquidation_price

PerpGeneratePositionId(trader, symbol) == HashId(trader, symbol, now)

\* total_*_positions.get(symbol, 0)
GetTotal(m, symbol) == IF symbol \in DOMAIN m THEN m[symbol] ELSE 0

PerpInit ==
    /\ fee_collector = Creator
    /\ trading_fee = 50
    /\ max_leverage = 100
    /\ usdc_asset_id = 0
    /\ positions_box = <<>>
    /\ funding_rates_box = <<>>
    /\ total_long_positions = <<>>
    /\ total_short_positions = <<>>

SetupProtocolError(sender) ==
    IF sender # Creator THEN "Only admin can setup protocol" ELSE "ok"

setup_protocol(sender, new_fee_collector, new_usdc_asset_id, new_trading_fee, new_max_leverage) ==
    /\ contract = "PerpetualDEX"
    /\ IF SetupProtocolError(sender) # "ok"
       THEN UNCHANGED vars
       ELSE /\ fee_collector' = new_fee_collector
            /\ usdc_asset_id' = new_usdc_asset_id
            /\ trading_fee' = new_trading_fee
            /\ max_leverage' = new_max_leverage
            /\ last' = Outcome("setup_protocol", 0, 0, <<>>, <<>>)
            /\ UNCHANGED <<contract, now, opens, positions_box, funding_rates_box,
                           total_long_positions, total_short_positions, ouroVars,
                           fundVars, feedVars, bookVars>>

\* a variant of the checks below without the upper limit on leverage
PerpOpenError_NoLimit(leverage, margin_payment) ==
    CASE ~(leverage > 0) -> "Invalid leverage"
      [] margin_payment.receiver # AppAddress -> "Invalid payment receiver"
      [] margin_payment.asset_id # usdc_asset_id -> "Must pay with USDC"
      [] OTHER -> "ok"

\* the first assertion of open_position that fails, or "ok"
PerpOpenError(leverage, margin_payment) ==
    CASE ~(leverage > 0 /\ leverage <= max_leverage) -> "Invalid leverage"
      [] margin_payment.receiver # AppAddress -> "Invalid payment receiver"
      [] margin_payment.asset_id # usdc_asset_id -> "Must pay with USDC"
      [] OTHER -> "ok"

\* the PerpPosition open_position builds
PerpNewPosition(trader, symbol, leverage, is_long, margin_amount) ==
    LET current_price == PerpGetOraclePrice(symbol) IN
    [trader |-> trader,
     symbol |-> symbol,
     size |-> margin_amount * leverage,
     entry_price |-> current_price,
     margin |-> margin_amount,
     leverage |-> leverage,
     is_long |-> is_long,
     timestamp |-> now,
     funding_index |-> GetCurrentFundingIndex(symbol),
     liquidation_price |-> PerpCalculateLiquidationPrice(current_price, leverage, is_long)]

\* a variant of the bookkeeping below that records the side without adding the size
PerpAddOpenInterest_Forgets(position) ==
    IF position.is_long
    THEN /\ total_long_positions' =
              Put(total_long_positions, position.symbol,
                  GetTotal(total_long_positions, position.symbol))
         /\ UNCHANGED total_short_positions
    ELSE /\ total_short_positions' =
              Put(total_short_positions, position.symbol,
                  GetTotal(total_short_positions, position.symbol))
         /\ UNCHANGED total_long_positions

\* "Update protocol metrics" of open_position
PerpAddOpenInterest(position) ==
    IF position.is_long
    THEN /\ total_long_positions' =
              Put(total_long_positions, position.symbol,
                  GetTotal(total_long_positions, position.symbol) + position.size)
         /\ UNCHANGED total_short_positions
    ELSE /\ total_short_positions' =
              Put(total_short_positions, position.symbol,
                  GetTotal(total_short_positions, position.symbol) + position.size)
         /\ UNCHANGED total_long_positions

\* the `size` argument of open_position is never read
open_position(sender, symbol, leverage, is_long, margin_payment) ==
    /\ contract = "PerpetualDEX"
    /\ IF PerpOpenError(leverage, margin_payment) # "ok"
       THEN UNCHANGED vars
       ELSE LET position == PerpNewPosition(sender, symbol, leverage, is_long,
                                            margin_payment.amount)
                position_id == PerpGeneratePositionId(sender, symbol)
                trading_fee_amount == (margin_payment.amount * trading_fee) \div 10000
            IN
            /\ opens < MaxOpens
            /\ opens' = opens + 1
            /\ positions_box' = Put(positions_box, position_id, position)
            /\ PerpAddOpenInterest(position)
            /\ last' = Outcome("open_position", position_id, position_id,
                               <<<<fee_collector, trading_fee_amount>>>>, <<>>)
            /\ UNCHANGED <<contract, now, fee_collector, trading_fee, max_leverage,
                           usdc_asset_id, funding_rates_box, ouroVars,
                           fundVars, feedVars, bookVars>>

\* a variant of the computation below without the non-negative floor
PerpCloseAmounts_NoFloor(position) ==
    LET pnl == PerpCalculatePnl(position, PerpGetOraclePrice(position.symbol))
        funding_fee == PerpCalculateFundingFee(position)
        trading_fee_amount == (Abs(pnl) * trading_fee) \div 10000
    IN [margin |-> position.margin, pnl |-> pnl, funding_fee |-> funding_fee,
        fee |-> trading_fee_amount,
        payout |-> position.margin + pnl - funding_fee - trading_fee_amount]

\* what close_position computes for a position: pnl, funding fee, closing
\* trading fee and the payout after the non-negative floor
PerpCloseAmounts(position) ==
    LET pnl == PerpCalculatePnl(position, PerpGetOraclePrice(position.symbol))
        funding_fee == PerpCalculateFundingFee(position)
        trading_fee_amount == (Abs(pnl) * trading_fee) \div 10000
        final_amount == position.margin + pnl - funding_fee - trading_fee_amount
    IN [margin |-> position.margin, pnl |-> pnl, funding_fee |-> funding_fee,
        fee |-> trading_fee_amount,
        payout |-> IF final_amount < 0 THEN 0 ELSE final_amount]

\* the open-interest total of the position's own side
PerpSideTotal(position) ==
    IF position.is_long THEN total_long_positions[position.symbol]
    ELSE total_short_positions[position.symbol]

\* a variant of the checks below without the ownership assertion
PerpCloseError_AnyCaller(sender, position_id) ==
    CASE position_id \notin DOMAIN positions_box -> "Position not found"
      [] FundingDiff(positions_box[position_id]) < 0 -> "uint64 underflow: funding_diff"
      [] PerpSideTotal(positions_box[position_id]) < positions_box[position_id].size ->
             "uint64 underflow: open interest"
      [] OTHER -> "ok"

\* the first check of close_position that fails, or "ok"
PerpCloseError(sender, position_id) ==
    CASE position_id \notin DOMAIN positions_box -> "Position not found"
      [] positions_box[position_id].trader # sender -> "Not position owner"
      [] FundingDiff(positions_box[position_id]) < 0 -> "uint64 underflow: funding_diff"
      [] PerpSideTotal(positions_box[position_id]) < positions_box[position_id].size ->
             "uint64 underflow: open interest"
      [] OTHER -> "ok"

\* a variant of the bookkeeping below that leaves both totals as they are
PerpSubtractOpenInterest_Skips(position) ==
    UNCHANGED <<total_long_positions, total_short_positions>>

\* "Update protocol metrics" of close_position and liquidate_position
PerpSubtractOpenInterest(position) ==
    IF position.is_long
    THEN /\ total_long_positions' =
              [total_long_positions EXCEPT ![position.symbol] = @ - position.size]
         /\ UNCHANGED total_short_positions
    ELSE /\ total_short_positions' =
              [total_short_positions EXCEPT ![position.symbol] = @ - position.size]
         /\ UNCHANGED total_long_positions

close_position(sender, position_id) ==
    /\ contract = "PerpetualDEX"
    /\ IF PerpCloseError(sender, position_id) # "ok"
       THEN UNCHANGED vars
       ELSE LET position == positions_box[position_id]
                amounts == PerpCloseAmounts(position)
            IN
            /\ PerpSubtractOpenInterest(position)
            /\ positions_box' = Remove(positions_box, position_id)
            /\ last' = Outcome("close_position", position_id, amounts.payout,
                               IF amounts.payout > 0
                               THEN <<<<sender, amounts.payout>>>> ELSE <<>>,
                               <<amounts>>)
            /\ UNCHANGED <<contract, now, opens, fee_collector, trading_fee, max_leverage,
                           usdc_asset_id, funding_rates_box, ouroVars,
                           fundVars, feedVars, bookVars>>

PerpLiquidateError(position_id) ==
    CASE position_id \notin DOMAIN positions_box -> "Position not found"
      [] ~PerpShouldLiquidate(positions_box[position_id],
                              PerpGetOraclePrice(positions_box[position_id].symbol)) ->
             "Position is healthy"
      [] PerpSideTotal(positions_box[position_id]) < positions_box[position_id].size ->
             "uint64 underflow: open interest"
      [] OTHER -> "ok"

\* a variant of the call below whose reward transfer survives the failure of
\* the health check that follows it
liquidate_position_KeepsTransfer(sender, position_id) ==
    /\ contract = "PerpetualDEX"
    /\ position_id \in DOMAIN positions_box
    /\ PerpLiquidateError(position_id) = "Position is healthy"
    /\ last' = Outcome("liquidate_position", position_id, 0,
                       <<<<sender, (positions_box[position_id].margin *
                                   liquidation_fee_ratio) \div 10000>>>>, <<>>)
    /\ UNCHANGED <<contract, now, opens, perpVars, ouroVars, fundVars, feedVars, bookVars>>

liquidate_position(sender, position_id) ==
    /\ contract = "PerpetualDEX"
    /\ IF PerpLiquidateError(position_id) # "ok"
       THEN UNCHANGED vars
       ELSE LET position == positions_box[position_id]
                liquidation_reward == (position.margin * liquidation_fee_ratio) \div 10000
            IN
            /\ PerpSubtractOpenInterest(position)
            /\ positions_box' = Remove(positions_box, position_id)
            /\ last' = Outcome("liquidate_position", position_id, 1,
                               <<<<sender, liquidation_reward>>>>, <<>>)
            /\ UNCHANGED <<contract, now, opens, fee_collector, trading_fee, max_leverage,
                           usdc_asset_id, funding_rates_box, ouroVars,
                           fundVars, feedVars, bookVars>>

UpdateFundingRateError(sender) ==
    IF sender # Creator THEN "Only admin can update funding rate" ELSE "ok"

update_funding_rate(sender, symbol, new_rate) ==
    /\ contract = "PerpetualDEX"
    /\ IF UpdateFundingRateError(sender) # "ok"
       THEN UNCHANGED vars
       ELSE LET cumulative_funding ==
                    IF symbol \in DOMAIN funding_rates_box
                    THEN funding_rates_box[symbol].cumulative_funding + new_rate
                    ELSE 0
            IN
            /\ Abs(cumulative_funding) <= MaxCumulative
            /\ funding_rates_box' =
                   Put(funding_rates_box, symbol,
                       [symbol |-> symbol, rate |-> new_rate, timestamp |-> now,
                        cumulative_funding |-> cumulative_funding])
            /\ last' = Outcome("update_funding_rate", 0, 0, <<>>, <<>>)
            /\ UNCHANGED <<contract, now, opens, fee_collector, trading_fee, max_leverage,
                           usdc_asset_id, positions_box, total_long_positions,
                           total_short_positions, ouroVars, fundVars, feedVars, bookVars>>

\* a later block: Global.latest_timestamp advances
NewBlock ==
    /\ now + 1 \in Times
    /\ now' = now + 1
    /\ UNCHANGED <<contract, last, opens, perpVars, ouroVars, fundVars, feedVars, bookVars>>

\* inputs of the PerpetualDEX calls
PerpLeverages == {0, 1, 100, 101}
PerpAmounts == {0, 200}
PerpFundingRates == {-200, 200, 2000}
PerpMaxLeverageInputs == {10, 100}

PerpNext ==
    \/ \E sender \in Accounts, ml \in PerpMaxLeverageInputs :
          setup_protocol(sender, Creator, 0, 50, ml)
    \/ \E sender \in Traders, symbol \in Symbols, leverage \in PerpLeverages,
          is_long \in BOOLEAN, pay \in Payments(PerpAmounts) :
          open_position(sender, symbol, leverage, is_long, pay)
    \/ \E sender \in Accounts, id \in IdSpace : close_position(sender, id)
    \/ \E sender \in Accounts, id \in IdSpace : liquidate_position(sender, id)
    \/ \E sender \in Accounts, symbol \in Symbols, rate \in PerpFundingRates :
          update_funding_rate(sender, symbol, rate)

----------------------------------------------------------------------------
(* OuroDEX *)

\* GlobalConfig of __init__; asset_price 4000_00000000 in units of PRICE_UNIT
DefaultConfig ==
    [leverage_limit |-> 10,
     liquidation_threshold |-> 80,
     leverage_dividend |-> 1000,
     maintenance_margin |-> 10,
     asset_price |-> 40000,
     futures_expiration |-> 0]

OuroInit ==
    /\ oracle_contract = 0
    /\ ouro_usdc_asset_id = 0
    /\ config = DefaultConfig
    /\ ouro_positions = <<>>

\* the Position struct has no is_long field and open_position stores no
\* direction, yet _calculate_pnl and _check_liquidation read position.is_long:
\* the read is of a value that was never written, so it may yield either
IsLongReads == BOOLEAN

\* _get_oracle_price: the cached price, once the oracle call is verified
OuroOracleError(oracle_call) ==
    IF oracle_call.application_id # oracle_contract THEN "assert: oracle call" ELSE "ok"
OuroGetOraclePrice(symbol) == config.asset_price

OuroCalculateLiquidationPrice(entry_price, leverage, is_long) ==
    LET threshold == config.liquidation_threshold IN
    IF is_long
    THEN (entry_price * (100 - (threshold \div leverage))) \div 100
    ELSE (entry_price * (100 + (threshold \div leverage))) \div 100

\* is_long is what the read of position.is_long yields
OuroCalculatePnl(position, current_price, is_long) ==
    LET price_diff == current_price - position.entry_price IN
    IF is_long
    THEN TruncDiv(price_diff * position.size, position.entry_price)
    ELSE TruncDiv((-price_diff) * position.size, position.entry_price)

OuroCheckLiquidation(position, current_price, is_long) ==
    IF is_long
    THEN current_price <= position.liquidation_price
    ELSE current_price >= position.liquidation_price

OuroGeneratePositionId(trader, symbol) == HashId(trader, symbol, now)

SetupContractError(sender) == IF sender # Creator THEN "Only admin can setup" ELSE "ok"

setup_contract(sender, oracle_app_id, new_usdc_asset_id, futures_expiration, maintenance_margin, leverage_dividend, initial_asset_price) ==
    /\ contract = "OuroDEX"
    /\ IF SetupContractError(sender) # "ok"
       THEN UNCHANGED vars
       ELSE /\ oracle_contract' = oracle_app_id
            /\ ouro_usdc_asset_id' = new_usdc_asset_id
            /\ config' = [leverage_limit |-> config.leverage_limit,
                          liquidation_threshold |-> config.liquidation_threshold,
                          leverage_dividend |-> leverage_dividend,
                          maintenance_margin |-> maintenance_margin,
                          asset_price |-> initial_asset_price,
                          futures_expiration |-> futures_expiration]
            /\ last' = Outcome("setup_contract", 0, 0, <<>>, <<>>)
            /\ UNCHANGED <<contract, now, opens, ouro_positions, perpVars,
                           fundVars, feedVars, bookVars>>

\* the first assertion of OuroDEX.open_position that fails, or "ok"
OuroOpenError(leverage, margin_payment, oracle_call) ==
    CASE margin_payment.receiver # AppAddress -> "assert: payment receiver"
      [] margin_payment.asset_id # ouro_usdc_asset_id -> "assert: payment asset"
      [] ~(margin_payment.amount > 0) -> "Amount cannot be zero"
      [] ~(leverage <= config.leverage_limit) -> "Leverage too high"
      [] ~(leverage > 0) -> "Leverage must be positive"
      [] OuroOracleError(oracle_call) # "ok" -> OuroOracleError(oracle_call)
      [] config.leverage_dividend = 0 -> "division by zero: leverage_dividend"
      [] OTHER -> "ok"

\* the Position open_position builds: the stored margin is price / leverage_dividend,
\* is_open starts False, and is_long is used for the liquidation price only
OuroNewPosition(trader, symbol, leverage, is_long, margin_amount) ==
    LET current_price == OuroGetOraclePrice(symbol) IN
    [margin |-> current_price \div config.leverage_dividend,
     entry_price |-> current_price,
     is_open |-> FALSE,
     holder |-> trader,
     leverage |-> leverage,
     size |-> margin_amount * leverage,
     symbol |-> symbol,
     timestamp |-> now,
     liquidation_price |-> OuroCalculateLiquidationPrice(current_price, leverage, is_long)]

ouro_open_position(sender, symbol, leverage, is_long, margin_payment, oracle_call) ==
    /\ contract = "OuroDEX"
    /\ IF OuroOpenError(leverage, margin_payment, oracle_call) # "ok"
       THEN UNCHANGED vars
       ELSE LET position_id == OuroGeneratePositionId(sender, symbol)
                new_position == OuroNewPosition(sender, symbol, leverage, is_long,
                                                margin_payment.amount)
            IN
            /\ opens < MaxOpens
            /\ opens' = opens + 1
            /\ ouro_positions' = Put(ouro_positions, position_id, new_position)
            /\ last' = Outcome("open_position", position_id, position_id, <<>>, <<>>)
            /\ UNCHANGED <<contract, now, oracle_contract, ouro_usdc_asset_id, config,
                           perpVars, fundVars, feedVars, bookVars>>

OuroCloseError(sender, position_id, oracle_call) ==
    CASE position_id \notin DOMAIN ouro_positions -> "Position not found"
      [] ouro_positions[position_id].holder # sender -> "Not position owner"
      [] ouro_positions[position_id].is_open -> "Position is closed"
      [] OuroOracleError(oracle_call) # "ok" -> OuroOracleError(oracle_call)
      [] ouro_positions[position_id].entry_price = 0 -> "division by zero: entry_price"
      [] OTHER -> "ok"

\* what close_position computes: pnl and the final payout (margin + PnL, at least 0)
OuroCloseAmounts(position, is_long) ==
    LET pnl == OuroCalculatePnl(position, OuroGetOraclePrice(position.symbol), is_long) IN
    [margin |-> position.margin, pnl |-> pnl, funding_fee |-> 0, fee |-> 0,
     payout |-> IF pnl > 0 THEN position.margin + pnl
                ELSE IF Abs(pnl) < position.margin THEN position.margin - Abs(pnl)
                ELSE 0]

ouro_close_position(sender, position_id, oracle_call, is_long_read) ==
    /\ contract = "OuroDEX"
    /\ IF OuroCloseError(sender, position_id, oracle_call) # "ok"
       THEN UNCHANGED vars
       ELSE LET position == ouro_positions[position_id]
                amounts == OuroCloseAmounts(position, is_long_read)
            IN
            /\ ouro_positions' = [ouro_positions EXCEPT ![position_id].is_open = TRUE]
            /\ last' = Outcome("close_position", position_id, amounts.payout,
                               IF amounts.payout > 0
                               THEN <<<<sender, amounts.payout>>>> ELSE <<>>,
                               <<amounts>>)
            /\ UNCHANGED <<contract, now, opens, oracle_contract, ouro_usdc_asset_id,
                           config, perpVars, fundVars, feedVars, bookVars>>

OuroLiquidateError(position_id, oracle_call, is_long_read) ==
    CASE position_id \notin DOMAIN ouro_positions -> "Position not found"
      [] OuroOracleError(oracle_call) # "ok" -> OuroOracleError(oracle_call)
      [] ~OuroCheckLiquidation(ouro_positions[position_id],
                               OuroGetOraclePrice(ouro_positions[position_id].symbol),
                               is_long_read) -> "Position is healthy"
      [] OTHER -> "ok"

ouro_liquidate_position(sender, position_id, oracle_call, is_long_read) ==
    /\ contract = "OuroDEX"
    /\ IF OuroLiquidateError(position_id, oracle_call, is_long_read) # "ok"
       THEN UNCHANGED vars
       ELSE LET position == ouro_positions[position_id]
                liquidation_reward == (position.margin * 5) \div 100
            IN
            /\ ouro_positions' = Remove(ouro_positions, position_id)
            /\ last' = Outcome("liquidate_position", position_id, 1,
                               <<<<sender, liquidation_reward>>>>, <<>>)
            /\ UNCHANGED <<contract, now, opens, oracle_contract, ouro_usdc_asset_id,
                           config, perpVars, fundVars, feedVars, bookVars>>

\* a variant of the check below that lets any account through
SetAssetPriceError_Anyone(sender) == "ok"

SetAssetPriceError(sender) == IF sender # Creator THEN "Only admin can set price" ELSE "ok"

set_asset_price(sender, new_price) ==
    /\ contract = "OuroDEX"
    /\ IF SetAssetPriceError(sender) # "ok"
       THEN UNCHANGED vars
       ELSE /\ config' = [config EXCEPT !.asset_price = new_price]
            /\ last' = Outcome("set_asset_price", 0, 0, <<>>, <<>>)
            /\ UNCHANGED <<contract, now, opens, oracle_contract, ouro_usdc_asset_id,
                           ouro_positions, perpVars, fundVars, feedVars, bookVars>>

\* inputs of the OuroDEX calls
OuroLeverages == {0, 1, 10, 11}
OuroAmounts == {0, 100}
OuroPrices == {36000, 40000, 44000}
OracleCalls == {[application_id |-> 0], [application_id |-> 9]}

OuroNext ==
    \/ \E sender \in Accounts, price \in OuroPrices :
          setup_contract(sender, 9, 0, 0, 10, 1000, price)
    \/ \E sender \in Traders, symbol \in Symbols, leverage \in OuroLeverages,
          is_long \in BOOLEAN, pay \in Payments(OuroAmounts), oc \in OracleCalls :
          ouro_open_position(sender, symbol, leverage, is_long, pay, oc)
    \/ \E sender \in Accounts, id \in IdSpace, oc \in OracleCalls, d \in IsLongReads :
          ouro_close_position(sender, id, oc, d)
    \/ \E sender \in Accounts, id \in IdSpace, oc \in OracleCalls, d \in IsLongReads :
          ouro_liquidate_position(sender, id, oc, d)
    \/ \E sender \in Accounts, price \in OuroPrices : set_asset_price(sender, price)

----------------------------------------------------------------------------
(* FundingRateManager *)

FundInit ==
    /\ perp_dex_app_id = 0
    /\ default_base_rate = 10
    /\ default_max_rate = 1000
    /\ default_interval = 3600
    /\ markets_box = <<>>

MarketData(symbol, long_oi, short_oi, base_rate, max_rate, interval) ==
    [symbol |-> symbol,
     total_long_oi |-> long_oi,
     total_short_oi |-> short_oi,
     base_funding_rate |-> base_rate,
     max_funding_rate |-> max_rate,
     funding_interval |-> interval]

\* the body of calculate_funding_rate, for the MarketData read from the box
CalculateFundingRate(market) ==
    LET total_oi == market.total_long_oi + market.total_short_oi IN
    IF total_oi = 0 THEN 0
    ELSE LET long_ratio == FloorDiv(market.total_long_oi * 10000, total_oi)
             imbalance_ratio == FloorDiv(long_ratio - 5000, 50)
             funding_rate == FloorDiv(market.base_funding_rate * imbalance_ratio, 100)
         IN IF funding_rate > market.max_funding_rate THEN market.max_funding_rate
            ELSE IF funding_rate < -market.max_funding_rate THEN -market.max_funding_rate
            ELSE funding_rate

FundUnchanged == UNCHANGED <<contract, now, opens, perpVars, ouroVars, feedVars, bookVars>>

SetPerpDexAppIdError(sender) ==
    IF sender # Creator THEN "Only admin can set DEX app ID" ELSE "ok"

set_perp_dex_app_id(sender, app_id) ==
    /\ contract = "FundingRateManager"
    /\ IF SetPerpDexAppIdError(sender) # "ok"
       THEN UNCHANGED vars
       ELSE /\ perp_dex_app_id' = app_id
            /\ last' = Outcome("set_perp_dex_app_id", 0, 0, <<>>, <<>>)
            /\ UNCHANGED <<default_base_rate, default_max_rate, default_interval, markets_box>>
            /\ FundUnchanged

InitializeMarketError(sender) ==
    IF sender # Creator THEN "Only admin can initialize markets" ELSE "ok"

initialize_market(sender, symbol, base_funding_rate, max_funding_rate, funding_interval) ==
    /\ contract = "FundingRateManager"
    /\ IF InitializeMarketError(sender) # "ok"
       THEN UNCHANGED vars
       ELSE /\ markets_box' =
                   Put(markets_box, symbol,
                       MarketData(symbol, 0, 0, base_funding_rate, max_funding_rate,
                                  funding_interval))
            /\ last' = Outcome("initialize_market", 0, 0, <<>>, <<>>)
            /\ UNCHANGED <<perp_dex_app_id, default_base_rate, default_max_rate,
                           default_interval>>
            /\ FundUnchanged

\* application0 is Txn.applications[0]
UpdateOpenInterestError(sender, application0) ==
    IF ~(sender = Creator \/ application0 = perp_dex_app_id)
    THEN "Unauthorized caller" ELSE "ok"

update_open_interest(sender, application0, symbol, long_oi, short_oi) ==
    /\ contract = "FundingRateManager"
    /\ IF UpdateOpenInterestError(sender, application0) # "ok"
       THEN UNCHANGED vars
       ELSE /\ markets_box' =
                   IF symbol \notin DOMAIN markets_box
                   THEN Put(markets_box, symbol,
                            MarketData(symbol, long_oi, short_oi, default_base_rate,
                                       default_max_rate, default_interval))
                   ELSE [markets_box EXCEPT ![symbol].total_long_oi = long_oi,
                                            ![symbol].total_short_oi = short_oi]
            /\ last' = Outcome("update_open_interest", 0, 0, <<>>, <<>>)
            /\ UNCHANGED <<perp_dex_app_id, default_base_rate, default_max_rate,
                           default_interval>>
            /\ FundUnchanged

CalculateFundingRateError(symbol) ==
    IF symbol \notin DOMAIN markets_box THEN "Market not initialized" ELSE "ok"

calculate_funding_rate(symbol) ==
    /\ contract = "FundingRateManager"
    /\ IF CalculateFundingRateError(symbol) # "ok"
       THEN UNCHANGED vars
       ELSE /\ last' = Outcome("calculate_funding_rate", 0,
                               CalculateFundingRate(markets_box[symbol]), <<>>, <<>>)
            /\ UNCHANGED fundVars
            /\ FundUnchanged

\* should_update_funding: False for an unknown market; the UInt64 difference
\* now - last_update rejects the call when last_update is in the future
ShouldUpdateFundingError(symbol, last_update) ==
    IF symbol \in DOMAIN markets_box /\ now - last_update < 0
    THEN "uint64 underflow: time_since_update" ELSE "ok"

\* a variant of the comparison below that needs more than a full interval
ShouldUpdateFunding_Strict(symbol, last_update) ==
    IF symbol \notin DOMAIN markets_box THEN FALSE
    ELSE now - last_update > markets_box[symbol].funding_interval

ShouldUpdateFunding(symbol, last_update) ==
    IF symbol \notin DOMAIN markets_box THEN FALSE
    ELSE now - last_update >= markets_box[symbol].funding_interval

should_update_funding(symbol, last_update) ==
    /\ contract = "FundingRateManager"
    /\ IF ShouldUpdateFundingError(symbol, last_update) # "ok"
       THEN UNCHANGED vars
       ELSE /\ last' = Outcome("should_update_funding", 0,
                               IF ShouldUpdateFunding(symbol, last_update) THEN 1 ELSE 0,
                               <<>>, <<>>)
            /\ UNCHANGED fundVars
            /\ FundUnchanged

UpdateMarketParamsError(sender, symbol) ==
    CASE sender # Creator -> "Only admin can update market params"
      [] symbol \notin DOMAIN markets_box -> "Market not found"
      [] OTHER -> "ok"

update_market_params(sender, symbol, base_rate, max_rate, interval) ==
    /\ contract = "FundingRateManager"
    /\ IF UpdateMarketParamsError(sender, symbol) # "ok"
       THEN UNCHANGED vars
       ELSE /\ markets_box' = [markets_box EXCEPT ![symbol].base_funding_rate = base_rate,
                                                  ![symbol].max_funding_rate = max_rate,
                                                  ![symbol].funding_interval = interval]
            /\ last' = Outcome("update_market_params", 0, 0, <<>>, <<>>)
            /\ UNCHANGED <<perp_dex_app_id, default_base_rate, default_max_rate,
                           default_interval>>
            /\ FundUnchanged

SetDefaultParamsError(sender) ==
    IF sender # Creator THEN "Only admin can set default params" ELSE "ok"

set_default_params(sender, base_rate, max_rate, interval) ==
    /\ contract = "FundingRateManager"
    /\ IF SetDefaultParamsError(sender) # "ok"
       THEN UNCHANGED vars
       ELSE /\ default_base_rate' = base_rate
            /\ default_max_rate' = max_rate
            /\ default_interval' = interval
            /\ last' = Outcome("set_default_params", 0, 0, <<>>, <<>>)
            /\ UNCHANGED <<perp_dex_app_id, markets_box>>
            /\ FundUnchanged

\* inputs of the FundingRateManager calls: open interest, and (base, max, interval)
OpenInterests ==
    ((0 .. MaxOI) \X (0 .. MaxOI))
    \cup {<<7000, 3000>>, <<3000, 7000>>, <<51, 49>>, <<49, 51>>}
BaseRates == {-10, 10}
MaxRates == {-1, 5, 1000}
Intervals == {1, 3600}
DefaultParams == {<<10, 1000, 3600>>, <<100, 5, 1>>}

FundNext ==
    \/ \E sender \in Accounts : set_perp_dex_app_id(sender, 5)
    \/ \E sender \in Accounts, symbol \in Symbols, b \in BaseRates, m \in MaxRates,
          i \in Intervals : initialize_market(sender, symbol, b, m, i)
    \/ \E sender \in Accounts, app \in {0, 5}, symbol \in Symbols, oi \in OpenInterests :
          update_open_interest(sender, app, symbol, oi[1], oi[2])
    \/ \E symbol \in Symbols : calculate_funding_rate(symbol)
    \/ \E symbol \in Symbols, last_update \in Times :
          should_update_funding(symbol, last_update)
    \/ \E sender \in Accounts, symbol \in Symbols, b \in BaseRates, m \in MaxRates,
          i \in Intervals : update_market_params(sender, symbol, b, m, i)
    \/ \E sender \in Accounts, p \in DefaultParams :
          set_default_params(sender, p[1], p[2], p[3])

----------------------------------------------------------------------------
(* PriceOracle: publishing and reading a price *)

PriceOracleInit ==
    /\ authorized_updaters = {Creator}
    /\ prices_box = <<>>
    /\ max_price_age = 300
    /\ min_confidence = 8000

UpdatePriceError(sender, confidence) ==
    CASE sender \notin authorized_updaters -> "Unauthorized updater"
      [] confidence < min_confidence -> "Confidence too low"
      [] OTHER -> "ok"

update_price(sender, symbol, price, confidence) ==
    IF UpdatePriceError(sender, confidence) # "ok"
    THEN UNCHANGED vars
    ELSE /\ prices_box' = Put(prices_box, symbol,
                              [symbol |-> symbol, price |-> price, timestamp |-> now,
                               confidence |-> confidence])
         /\ UNCHANGED <<contract, now, last, opens, perpVars, ouroVars, fundVars,
                        authorized_updaters, max_price_age, min_confidence,
                        oracle_config, oracle_boxes, bookVars>>

\* get_price: the stored price, unless none is stored or it is too old
GetPriceError(symbol) ==
    CASE symbol \notin DOMAIN prices_box -> "Price not found"
      [] now - prices_box[symbol].timestamp < 0 -> "uint64 underflow: age"
      [] now - prices_box[symbol].timestamp > max_price_age -> "Price data too old"
      [] OTHER -> "ok"

GetPrice(symbol) == prices_box[symbol]

----------------------------------------------------------------------------
(* OuroOracle: publishing and reading a price *)

OuroOracleInit ==
    /\ oracle_config = [owner |-> Creator, max_price_age |-> 300, min_confidence |-> 80,
                        authorized_publishers |-> <<>>]
    /\ oracle_boxes = <<>>

OraclePriceKey(symbol) == <<"price_", symbol>>
OraclePublisherKey(publisher) == <<"pub_", publisher>>
IsAuthorizedPublisher(publisher) == OraclePublisherKey(publisher) \in DOMAIN oracle_boxes

SetPriceError(publisher, price, confidence) ==
    CASE ~(publisher = oracle_config.owner \/ IsAuthorizedPublisher(publisher)) ->
             "Not authorized to set price"
      [] ~(price > 0) -> "Price must be positive"
      [] ~(confidence <= 100) -> "Invalid confidence score"
      [] ~(confidence >= oracle_config.min_confidence) -> "Confidence too low"
      [] OTHER -> "ok"

set_price(sender, symbol, price, confidence) ==
    IF SetPriceError(sender, price, confidence) # "ok"
    THEN UNCHANGED vars
    ELSE /\ oracle_boxes' = Put(oracle_boxes, OraclePriceKey(symbol),
                                [price |-> price, confidence |-> confidence,
                                 timestamp |-> now, symbol |-> symbol,
                                 publisher |-> sender])
         /\ UNCHANGED <<contract, now, last, opens, perpVars, ouroVars, fundVars,
                        authorized_updaters, prices_box, max_price_age, min_confidence,
                        oracle_config, bookVars>>

\* price: the stored price, unless none is stored or it is stale
OraclePriceError(symbol) ==
    CASE OraclePriceKey(symbol) \notin DOMAIN oracle_boxes -> "Price not found"
      [] now - oracle_boxes[OraclePriceKey(symbol)].timestamp < 0 ->
             "uint64 underflow: price_age"
      [] now - oracle_boxes[OraclePriceKey(symbol)].timestamp > oracle_config.max_price_age ->
             "Price data stale"
      [] OTHER -> "ok"

OraclePrice(symbol) == oracle_boxes[OraclePriceKey(symbol)].price

FeedInit ==
    /\ PriceOracleInit
    /\ OuroOracleInit

\* inputs of the publishing calls
FeedPrices == {0, 44000}
PriceOracleConfidences == {7000, 9000}
OuroOracleConfidences == {50, 90, 101}

\* the oracle next to PerpetualDEX is a PriceOracle, the one next to OuroDEX
\* an OuroOracle
FeedNext ==
    \/ /\ contract = "PerpetualDEX"
       /\ \E sender \in Accounts, symbol \in Symbols, price \in FeedPrices,
             confidence \in PriceOracleConfidences :
             update_price(sender, symbol, price, confidence)
    \/ /\ contract = "OuroDEX"
       /\ \E sender \in Accounts, symbol \in Symbols, price \in FeedPrices,
             confidence \in OuroOracleConfidences :
             set_price(sender, symbol, price, confidence)

----------------------------------------------------------------------------
(* PriceOracle and OuroOracle on their own: the age limit and the reads *)

\* every variable but those of the two oracles and `last`
NotOfOracles == <<contract, now, opens, perpVars, ouroVars, fundVars, bookVars>>

\* PriceOracle.set_max_price_age
SetMaxPriceAgeError(sender, max_age) ==
    CASE sender # Creator -> "Only admin can set max age"
      [] ~(max_age > 0) -> "Invalid max age"
      [] OTHER -> "ok"

set_max_price_age(sender, max_age) ==
    /\ contract = "PriceOracle"
    /\ IF SetMaxPriceAgeError(sender, max_age) # "ok"
       THEN UNCHANGED vars
       ELSE /\ max_price_age' = max_age
            /\ last' = Outcome("set_max_price_age", <<>>, 0, <<>>, <<>>)
            /\ UNCHANGED <<authorized_updaters, prices_box, min_confidence,
                           oracle_config, oracle_boxes>>
            /\ UNCHANGED NotOfOracles

\* PriceOracle.get_price returns the stored record
get_price(symbol) ==
    /\ contract = "PriceOracle"
    /\ IF GetPriceError(symbol) # "ok"
       THEN UNCHANGED vars
       ELSE /\ last' = Outcome("get_price", <<symbol>>, 0, <<>>, <<GetPrice(symbol)>>)
            /\ UNCHANGED feedVars
            /\ UNCHANGED NotOfOracles

\* PriceOracle.is_price_fresh: False when nothing is stored, else age <= max
IsPriceFreshError(symbol) ==
    CASE symbol \notin DOMAIN prices_box -> "ok"
      [] now - prices_box[symbol].timestamp < 0 -> "uint64 underflow: age"
      [] OTHER -> "ok"

\* a variant that does not look at the age of the stored record
IsPriceFresh_AnyAge(symbol) == symbol \in DOMAIN prices_box

IsPriceFresh(symbol) ==
    IF symbol \notin DOMAIN prices_box
    THEN FALSE
    ELSE now - prices_box[symbol].timestamp <= max_price_age

is_price_fresh(symbol) ==
    /\ contract = "PriceOracle"
    /\ IF IsPriceFreshError(symbol) # "ok"
       THEN UNCHANGED vars
       ELSE /\ last' = Outcome("is_price_fresh", <<symbol>>, IsPriceFresh(symbol),
                               <<>>, <<>>)
            /\ UNCHANGED feedVars
            /\ UNCHANGED NotOfOracles

\* OuroOracle.set_oracle_config
SetOracleConfigError(sender, new_max_price_age, new_min_confidence) ==
    CASE sender # oracle_config.owner -> "Only owner can update config"
      [] ~(new_max_price_age > 0) -> "Invalid price age"
      [] ~(new_min_confidence <= 100) -> "Invalid confidence"
      [] OTHER -> "ok"

set_oracle_config(sender, new_max_price_age, new_min_confidence) ==
    /\ contract = "OuroOracle"
    /\ IF SetOracleConfigError(sender, new_max_price_age, new_min_confidence) # "ok"
       THEN UNCHANGED vars
       ELSE /\ oracle_config' = [owner |-> oracle_config.owner,
                                 max_price_age |-> new_max_price_age,
                                 min_confidence |-> new_min_confidence,
                                 authorized_publishers |->
                                     oracle_config.authorized_publishers]
            /\ last' = Outcome("set_oracle_config", <<>>, 0, <<>>, <<>>)
            /\ UNCHANGED <<authorized_updaters, prices_box, max_price_age,
                           min_confidence, oracle_boxes>>
            /\ UNCHANGED NotOfOracles

\* OuroOracle.price returns the price of the stored record
oracle_price(symbol) ==
    /\ contract = "OuroOracle"
    /\ IF OraclePriceError(symbol) # "ok"
       THEN UNCHANGED vars
       ELSE /\ last' = Outcome("price", <<symbol>>, OraclePrice(symbol), <<>>, <<>>)
            /\ UNCHANGED feedVars
            /\ UNCHANGED NotOfOracles

\* OuroOracle._get_price_data
GetPriceDataError(symbol) ==
    IF OraclePriceKey(symbol) \notin DOMAIN oracle_boxes THEN "Price not found" ELSE "ok"

\* OuroOracle.is_price_fresh: whatever fails inside the try block (no stored
\* record, a negative age) is caught and answered with False
OracleIsPriceFresh(symbol) ==
    IF GetPriceDataError(symbol) # "ok"
    THEN FALSE
    ELSE IF now - oracle_boxes[OraclePriceKey(symbol)].timestamp < 0
    THEN FALSE
    ELSE now - oracle_boxes[OraclePriceKey(symbol)].timestamp
            <= oracle_config.max_price_age

oracle_is_price_fresh(symbol) ==
    /\ contract = "OuroOracle"
    /\ last' = Outcome("is_price_fresh", <<symbol>>, OracleIsPriceFresh(symbol),
                       <<>>, <<>>)
    /\ UNCHANGED feedVars
    /\ UNCHANGED NotOfOracles

\* Global.latest_timestamp of a later block
OracleNewBlock ==
    /\ now < MaxOracleTime
    /\ now' = now + 1
    /\ UNCHANGED <<contract, last, opens, perpVars, ouroVars, fundVars, feedVars, bookVars>>

\* inputs of the oracle calls
OracleSymbols == {"ETH", "BTC"}
OracleMaxAges == {0, 1, 300}
OracleMinConfidences == {80, 101}

OracleNext ==
    \/ /\ contract = "PriceOracle"
       /\ \E sender \in Accounts, symbol \in OracleSymbols, price \in FeedPrices,
             confidence \in PriceOracleConfidences :
             update_price(sender, symbol, price, confidence)
    \/ \E sender \in Accounts, max_age \in OracleMaxAges :
          set_max_price_age(sender, max_age)
    \/ \E symbol \in OracleSymbols : get_price(symbol)
    \/ \E symbol \in OracleSymbols : is_price_fresh(symbol)
    \/ /\ contract = "OuroOracle"
       /\ \E sender \in Accounts, symbol \in OracleSymbols, price \in FeedPrices,
             confidence \in OuroOracleConfidences :
             set_price(sender, symbol, price, confidence)
    \/ \E sender \in Accounts, new_max_price_age \in OracleMaxAges,
          new_min_confidence \in OracleMinConfidences :
          set_oracle_config(sender, new_max_price_age, new_min_confidence)
    \/ \E symbol \in OracleSymbols : oracle_price(symbol)
    \/ \E symbol \in OracleSymbols : oracle_is_price_fresh(symbol)

----------------------------------------------------------------------------
(* OuroOrderBook *)

BookInit ==
    /\ book_config = [admin |-> Creator, exchange_bytecode_hash |-> "",
                      min_liquidity |-> 1000000, max_fee_rate |-> 300,
                      is_initialized |-> FALSE]
    /\ book_boxes = <<>>

BookUnchanged == UNCHANGED <<contract, now, opens, perpVars, ouroVars, fundVars, feedVars>>

PairKey(asset_a, asset_b) == <<"pair_", asset_a, asset_b>>
PoolKey(asset_a, asset_b) == <<"pool_", asset_a, asset_b>>

\* the account that Address(op.itob(exchange_contract)) names: the registered
\* exchange; the model has a single exchange, with id 7
ExchangeAddress(exchange_contract) ==
    IF exchange_contract = 7 THEN "exchange" ELSE "unknown"

InitializeError(sender, exchange_bytecode_hash) ==
    CASE sender # book_config.admin -> "Only admin can initialize"
      [] book_config.is_initialized -> "Already initialized"
      [] exchange_bytecode_hash = "" -> "Invalid bytecode hash"
      [] OTHER -> "ok"

initialize(sender, exchange_bytecode_hash) ==
    /\ contract = "OuroOrderBook"
    /\ IF InitializeError(sender, exchange_bytecode_hash) # "ok"
       THEN UNCHANGED vars
       ELSE /\ book_config' = [admin |-> book_config.admin,
                               exchange_bytecode_hash |-> exchange_bytecode_hash,
                               min_liquidity |-> book_config.min_liquidity,
                               max_fee_rate |-> book_config.max_fee_rate,
                               is_initialized |-> TRUE]
            /\ last' = Outcome("initialize", 0, 0, <<>>, <<>>)
            /\ UNCHANGED book_boxes
            /\ BookUnchanged

AddOrderError(sender, asset_a, asset_b, fee_rate) ==
    CASE ~book_config.is_initialized -> "OrderBook not initialized"
      [] sender # book_config.admin -> "Only admin can add orders"
      [] asset_a = asset_b -> "Assets must be different"
      [] fee_rate > book_config.max_fee_rate -> "Fee rate too high"
      [] OTHER -> "ok"

\* the boxes after add_order: the pair and its pool, under the ordered key
AddOrderBoxes(sender, asset_a, asset_b, exchange_contract_id, fee_rate) ==
    LET a == IF asset_a > asset_b THEN asset_b ELSE asset_a
        b == IF asset_a > asset_b THEN asset_a ELSE asset_b
        asset_pair == [asset_a |-> a, asset_b |-> b,
                       exchange_contract |-> exchange_contract_id,
                       is_active |-> TRUE, created_timestamp |-> now]
        pool_info == [asset_pair |-> asset_pair, liquidity_provider |-> sender,
                      total_liquidity |-> 0, fee_rate |-> fee_rate]
    IN Put(Put(book_boxes, PairKey(a, b), asset_pair), PoolKey(a, b), pool_info)

add_order(sender, asset_a, asset_b, exchange_contract_id, fee_rate) ==
    /\ contract = "OuroOrderBook"
    /\ IF AddOrderError(sender, asset_a, asset_b, fee_rate) # "ok"
       THEN UNCHANGED vars
       ELSE /\ book_boxes' = AddOrderBoxes(sender, asset_a, asset_b,
                                           exchange_contract_id, fee_rate)
            /\ last' = Outcome("add_order", <<asset_a, asset_b>>, 0, <<>>, <<>>)
            /\ UNCHANGED book_config
            /\ BookUnchanged

\* order: the pair stored under the ordered key
OrderKey(asset_a, asset_b) ==
    IF asset_a > asset_b THEN PairKey(asset_b, asset_a) ELSE PairKey(asset_a, asset_b)

OrderError(asset_a, asset_b) ==
    IF OrderKey(asset_a, asset_b) \notin DOMAIN book_boxes
    THEN "Asset pair not found" ELSE "ok"

Order(asset_a, asset_b) == book_boxes[OrderKey(asset_a, asset_b)]

order(asset_a, asset_b) ==
    /\ contract = "OuroOrderBook"
    /\ IF OrderError(asset_a, asset_b) # "ok"
       THEN UNCHANGED vars
       ELSE /\ last' = Outcome("order", <<asset_a, asset_b>>, 0, <<>>,
                               <<Order(asset_a, asset_b)>>)
            /\ UNCHANGED bookVars
            /\ BookUnchanged

\* get_pool_info: the pool stored under the ordered key
GetPoolInfoKey(asset_a, asset_b) ==
    IF asset_a > asset_b THEN PoolKey(asset_b, asset_a) ELSE PoolKey(asset_a, asset_b)

GetPoolInfoError(asset_a, asset_b) ==
    IF GetPoolInfoKey(asset_a, asset_b) \notin DOMAIN book_boxes
    THEN "Pool not found" ELSE "ok"

GetPoolInfo(asset_a, asset_b) == book_boxes[GetPoolInfoKey(asset_a, asset_b)]

get_pool_info(asset_a, asset_b) ==
    /\ contract = "OuroOrderBook"
    /\ IF GetPoolInfoError(asset_a, asset_b) # "ok"
       THEN UNCHANGED vars
       ELSE /\ last' = Outcome("get_pool_info", <<asset_a, asset_b>>, 0, <<>>,
                               <<GetPoolInfo(asset_a, asset_b)>>)
            /\ UNCHANGED bookVars
            /\ BookUnchanged

UpdatePoolLiquidityError(sender, asset_a, asset_b, liquidity_amount, is_add) ==
    CASE OrderError(asset_a, asset_b) # "ok" -> OrderError(asset_a, asset_b)
      [] sender # ExchangeAddress(Order(asset_a, asset_b).exchange_contract) ->
             "Only exchange can update"
      [] GetPoolInfoError(asset_a, asset_b) # "ok" -> GetPoolInfoError(asset_a, asset_b)
      [] ~is_add /\ ~(GetPoolInfo(asset_a, asset_b).total_liquidity >= liquidity_amount) ->
             "Insufficient liquidity"
      [] OTHER -> "ok"

\* the boxes after update_pool_liquidity
UpdatePoolLiquidityBoxes(asset_a, asset_b, liquidity_amount, is_add) ==
    LET pool_info == GetPoolInfo(asset_a, asset_b)
        new_liquidity == IF is_add THEN pool_info.total_liquidity + liquidity_amount
                         ELSE pool_info.total_liquidity - liquidity_amount
        updated_pool == [asset_pair |-> pool_info.asset_pair,
                         liquidity_provider |-> pool_info.liquidity_provider,
                         total_liquidity |-> new_liquidity,
                         fee_rate |-> pool_info.fee_rate]
        a == IF asset_a > asset_b THEN asset_b ELSE asset_a
        b == IF asset_a > asset_b THEN asset_a ELSE asset_b
    IN Put(book_boxes, PoolKey(a, b), updated_pool)

update_pool_liquidity(sender, asset_a, asset_b, liquidity_amount, is_add) ==
    /\ contract = "OuroOrderBook"
    /\ IF UpdatePoolLiquidityError(sender, asset_a, asset_b, liquidity_amount, is_add) # "ok"
       THEN UNCHANGED vars
       ELSE /\ is_add => GetPoolInfo(asset_a, asset_b).total_liquidity + liquidity_amount
                            <= MaxLiquidity
            /\ book_boxes' = UpdatePoolLiquidityBoxes(asset_a, asset_b,
                                                      liquidity_amount, is_add)
            /\ last' = Outcome("update_pool_liquidity", <<asset_a, asset_b>>, 0, <<>>, <<>>)
            /\ UNCHANGED book_config
            /\ BookUnchanged

DeactivatePairError(sender, asset_a, asset_b) ==
    CASE sender # book_config.admin -> "Only admin can deactivate"
      [] OrderError(asset_a, asset_b) # "ok" -> OrderError(asset_a, asset_b)
      [] OTHER -> "ok"

\* a variant of the write below that stores under the key as passed
DeactivatePairBoxes_AsPassed(asset_a, asset_b) ==
    LET pair == Order(asset_a, asset_b)
        updated_pair == [asset_a |-> pair.asset_a, asset_b |-> pair.asset_b,
                         exchange_contract |-> pair.exchange_contract,
                         is_active |-> FALSE,
                         created_timestamp |-> pair.created_timestamp]
    IN Put(book_boxes, PairKey(asset_a, asset_b), updated_pair)

\* the boxes after deactivate_pair
DeactivatePairBoxes(asset_a, asset_b) ==
    LET pair == Order(asset_a, asset_b)
        updated_pair == [asset_a |-> pair.asset_a, asset_b |-> pair.asset_b,
                         exchange_contract |-> pair.exchange_contract,
                         is_active |-> FALSE,
                         created_timestamp |-> pair.created_timestamp]
        a == IF asset_a > asset_b THEN asset_b ELSE asset_a
        b == IF asset_a > asset_b THEN asset_a ELSE asset_b
    IN Put(book_boxes, PairKey(a, b), updated_pair)

deactivate_pair(sender, asset_a, asset_b) ==
    /\ contract = "OuroOrderBook"
    /\ IF DeactivatePairError(sender, asset_a, asset_b) # "ok"
       THEN UNCHANGED vars
       ELSE /\ book_boxes' = DeactivatePairBoxes(asset_a, asset_b)
            /\ last' = Outcome("deactivate_pair", <<asset_a, asset_b>>, 0, <<>>, <<>>)
            /\ UNCHANGED book_config
            /\ BookUnchanged

UpdateFeeRateError(sender, asset_a, asset_b, new_fee_rate) ==
    CASE sender # book_config.admin -> "Only admin can update fees"
      [] new_fee_rate > book_config.max_fee_rate -> "Fee rate too high"
      [] GetPoolInfoError(asset_a, asset_b) # "ok" -> GetPoolInfoError(asset_a, asset_b)
      [] OTHER -> "ok"

\* the boxes after update_fee_rate
UpdateFeeRateBoxes(asset_a, asset_b, new_fee_rate) ==
    LET pool_info == GetPoolInfo(asset_a, asset_b)
        updated_pool == [asset_pair |-> pool_info.asset_pair,
                         liquidity_provider |-> pool_info.liquidity_provider,
                         total_liquidity |-> pool_info.total_liquidity,
                         fee_rate |-> new_fee_rate]
        a == IF asset_a > asset_b THEN asset_b ELSE asset_a
        b == IF asset_a > asset_b THEN asset_a ELSE asset_b
    IN Put(book_boxes, PoolKey(a, b), updated_pool)

update_fee_rate(sender, asset_a, asset_b, new_fee_rate) ==
    /\ contract = "OuroOrderBook"
    /\ IF UpdateFeeRateError(sender, asset_a, asset_b, new_fee_rate) # "ok"
       THEN UNCHANGED vars
       ELSE /\ book_boxes' = UpdateFeeRateBoxes(asset_a, asset_b, new_fee_rate)
            /\ last' = Outcome("update_fee_rate", <<asset_a, asset_b>>, 0, <<>>, <<>>)
            /\ UNCHANGED book_config
            /\ BookUnchanged

\* inputs of the order-book calls
Assets == {1, 2}
ExchangeIds == {7}
BookSenders == Accounts \cup {ExchangeAddress(x) : x \in ExchangeIds}
BytecodeHashes == {"", "hash"}
FeeRates == {30, 100, 301}
LiquidityAmounts == {1}

BookNext ==
    \/ \E sender \in Accounts, h \in BytecodeHashes : initialize(sender, h)
    \/ \E sender \in Accounts, a \in Assets, b \in Assets, x \in ExchangeIds,
          f \in FeeRates : add_order(sender, a, b, x, f)
    \/ \E a \in Assets, b \in Assets : order(a, b)
    \/ \E a \in Assets, b \in Assets : get_pool_info(a, b)
    \/ \E sender \in BookSenders, a \in Assets, b \in Assets, n \in LiquidityAmounts,
          is_add \in BOOLEAN : update_pool_liquidity(sender, a, b, n, is_add)
    \/ \E sender \in Accounts, a \in Assets, b \in Assets : deactivate_pair(sender, a, b)
    \/ \E sender \in Accounts, a \in Assets, b \in Assets, f \in FeeRates :
          update_fee_rate(sender, a, b, f)

----------------------------------------------------------------------------
(* Specifications *)

Init ==
    /\ contract \in {"PerpetualDEX", "OuroDEX"}
    /\ now = 0
    /\ last = NoCall
    /\ opens = 0
    /\ PerpInit
    /\ OuroInit
    /\ FundInit
    /\ FeedInit
    /\ BookInit

Next ==
    \/ PerpNext
    \/ OuroNext
    \/ NewBlock

Spec == Init /\ [][Next]_vars

\* the funding manager on its own
InitFunding ==
    /\ contract = "FundingRateManager"
    /\ now = 0
    /\ last = NoCall
    /\ opens = 0
    /\ PerpInit
    /\ OuroInit
    /\ FundInit
    /\ FeedInit
    /\ BookInit

NextFunding ==
    \/ FundNext
    \/ NewBlock

SpecFunding == InitFunding /\ [][NextFunding]_vars

\* any of the three contracts that hold configuration
InitProtocol == Init \/ InitFunding

NextProtocol ==
    \/ PerpNext
    \/ OuroNext
    \/ FundNext
    \/ NewBlock

SpecProtocol == InitProtocol /\ [][NextProtocol]_vars

\* a DEX variant next to the oracle that publishes the prices of its symbols
NextPriceFeed ==
    \/ PerpNext
    \/ OuroNext
    \/ FeedNext
    \/ NewBlock

SpecPriceFeed == Init /\ [][NextPriceFeed]_vars

\* the order book on its own
InitOrderBook ==
    /\ contract = "OuroOrderBook"
    /\ now = 0
    /\ last = NoCall
    /\ opens = 0
    /\ PerpInit
    /\ OuroInit
    /\ FundInit
    /\ FeedInit
    /\ BookInit

NextOrderBook ==
    \/ BookNext
    \/ NewBlock

SpecOrderBook == InitOrderBook /\ [][NextOrderBook]_vars

\* the two price oracles on their own
InitOracle ==
    /\ contract \in {"PriceOracle", "OuroOracle"}
    /\ now = 0
    /\ last = NoCall
    /\ opens = 0
    /\ PerpInit
    /\ OuroInit
    /\ FundInit
    /\ FeedInit
    /\ BookInit

NextOracle ==
    \/ OracleNext
    \/ OracleNewBlock

SpecOracle == InitOracle /\ [][NextOracle]_vars


----------------------------------------------------------------------------
(* Properties *)

PerpIds == DOMAIN positions_box
OuroIds == DOMAIN ouro_positions
\* an oracle call that _get_oracle_price accepts
GoodOracleCall == [application_id |-> oracle_contract]
\* the margin a trader deposited for a stored position: size = amount * leverage
Deposited(position) == position.size \div position.leverage
IsClose(outcome) == outcome.op = "close_position"
IsTerminal(outcome) == outcome.op \in {"close_position", "liquidate_position"}

\* C1: every position open_position stores (PerpetualDEX), or would store for a
\* leverage it accepts (OuroDEX), has its liquidation price strictly below the
\* entry price when long and strictly above it when short.
C1_LiquidationPriceOnLossSide ==
    /\ \A id \in PerpIds :
          LET p == positions_box[id] IN
          IF p.is_long THEN p.liquidation_price < p.entry_price
          ELSE p.liquidation_price > p.entry_price
    /\ contract = "OuroDEX" =>
          \A leverage \in OuroLeverages, is_long \in BOOLEAN, s \in Symbols :
             (leverage > 0 /\ leverage <= config.leverage_limit /\ config.asset_price > 0) =>
                LET p == OuroNewPosition("alice", s, leverage, is_long, 100) IN
                IF is_long THEN p.liquidation_price < p.entry_price
                ELSE p.liquidation_price > p.entry_price

\* C2: in PerpetualDEX the open-interest totals are never negative, and no stored
\* position's close or liquidation would subtract more than its side's total holds.
C2_OpenInterestNeverNegative ==
    /\ \A s \in DOMAIN total_long_positions : total_long_positions[s] >= 0
    /\ \A s \in DOMAIN total_short_positions : total_short_positions[s] >= 0
    /\ \A id \in PerpIds :
          LET p == positions_box[id] IN
          IF p.is_long THEN GetTotal(total_long_positions, p.symbol) >= p.size
          ELSE GetTotal(total_short_positions, p.symbol) >= p.size

\* a liquidation has brought a long total that was positive back to exactly zero
C2_Witness ==
    /\ contract = "PerpetualDEX"
    /\ last.op = "liquidate_position"
    /\ PerpIds = {}
    /\ "ETH" \in DOMAIN total_long_positions
    /\ total_long_positions["ETH"] = 0
    /\ GetTotal(total_short_positions, "ETH") = 0

\* C3: a successful open_position stores its position under an identifier that
\* held no position before, and leaves every stored position as it was.
C3_OpenNeverOverwrites ==
    [][opens' = opens + 1 =>
          /\ \A id \in PerpIds : id \in DOMAIN positions_box'
                                 /\ positions_box'[id] = positions_box[id]
          /\ \A id \in OuroIds : id \in DOMAIN ouro_positions'
                                 /\ ouro_positions'[id] = ouro_positions[id]
          /\ last'.id \notin PerpIds \cup OuroIds]_vars

\* a close or liquidation has succeeded on id: the most recent accepted call was
\* one, or (OuroDEX) the stored record carries the closed mark
Terminated(id) ==
    \/ IsTerminal(last) /\ last.id = id
    \/ contract = "OuroDEX" /\ id \in OuroIds /\ ouro_positions[id].is_open

\* C4: once a close or liquidation has succeeded on an identifier, no later
\* close_position or liquidate_position on that identifier is accepted.
C4_TerminalIsFinal ==
    [][\A id \in IdSpace :
          Terminated(id) => ~(last' # last /\ IsTerminal(last') /\ last'.id = id)]_vars

C6_OpenThenCloseReturnsMargin ==
    last.op = "open_position" =>
       /\ contract = "PerpetualDEX" =>
             LET p == positions_box[last.id]
                 a == PerpCloseAmounts(p)
             IN /\ PerpCloseError(p.trader, last.id) = "ok"
                /\ a.pnl = 0 /\ a.funding_fee = 0
                /\ a.payout = Deposited(p) - a.fee
       /\ contract = "OuroDEX" =>
             \A d \in IsLongReads :
                LET p == ouro_positions[last.id]
                    a == OuroCloseAmounts(p, d)
                IN /\ OuroCloseError(p.holder, last.id, GoodOracleCall) = "ok"
                   /\ a.pnl = 0 /\ a.funding_fee = 0
                   /\ a.payout = Deposited(p) - a.fee

Markets == {markets_box[s] : s \in DOMAIN markets_box}
Swapped(market) ==
    [market EXCEPT !.total_long_oi = market.total_short_oi,
                   !.total_short_oi = market.total_long_oi]
Imbalance(market) == Abs(market.total_long_oi - market.total_short_oi)
\* the markets with the parameters and total open interest of `market`
SameTotal(market) ==
    {[market EXCEPT !.total_long_oi = oi[1], !.total_short_oi = oi[2]] :
        oi \in {x \in OpenInterests :
                   x[1] + x[2] = market.total_long_oi + market.total_short_oi}}

\* C7: for every market the manager can hold, the magnitude of the calculated
\* funding rate is at most the market's max_funding_rate.
C7_RateWithinCap ==
    \A m \in Markets : Abs(CalculateFundingRate(m)) <= m.max_funding_rate

\* C8: swapping the two open-interest totals negates the calculated rate.
C8_OddSymmetric ==
    \A m \in Markets : CalculateFundingRate(m) = -CalculateFundingRate(Swapped(m))

\* C9: with a positive base rate the rate is positive when longs exceed shorts,
\* negative when shorts exceed longs, and zero when they are equal.
C9_SignMatchesExcess ==
    \A m \in Markets :
       m.base_funding_rate > 0 =>
          /\ m.total_long_oi > m.total_short_oi => CalculateFundingRate(m) > 0
          /\ m.total_long_oi < m.total_short_oi => CalculateFundingRate(m) < 0
          /\ m.total_long_oi = m.total_short_oi => CalculateFundingRate(m) = 0

\* C10: with a positive base rate and the total open interest fixed, a market
\* with at least as much imbalance has a rate of at least as large a magnitude.
C10_MagnitudeMonotone ==
    \A m \in Markets :
       m.base_funding_rate > 0 =>
          \A m2 \in SameTotal(m) :
             Imbalance(m2) >= Imbalance(m) =>
                Abs(CalculateFundingRate(m2)) >= Abs(CalculateFundingRate(m))

Min(a, b) == IF a <= b THEN a ELSE b
\* x limited to the interval lo .. hi
Clamp(x, lo, hi) == Max(lo, Min(x, hi))
\* the rate as the formula states it, each division rounding as the source's does
FormulaRate(market) ==
    LET total_oi == market.total_long_oi + market.total_short_oi IN
    IF total_oi = 0 THEN 0
    ELSE Clamp(FloorDiv(market.base_funding_rate
                          * FloorDiv(FloorDiv(market.total_long_oi * 10000, total_oi) - 5000, 50),
                        100),
               -market.max_funding_rate, market.max_funding_rate)

OuroOpenedLong(position) == position.liquidation_price < position.entry_price
\* the rule as stated: a long at or below its liquidation price, a short at or above
Liquidatable(is_long, current_price, liquidation_price) ==
    IF is_long THEN current_price <= liquidation_price
    ELSE current_price >= liquidation_price
\* the prices the rule is compared at
RulePrices == OuroPrices \cup {MockOraclePrice}
                \cup {positions_box[id].liquidation_price : id \in PerpIds}
                \cup {ouro_positions[id].liquidation_price : id \in OuroIds}

\* C12: liquidate_position accepts a stored position exactly when the rule holds
\* for the position's direction at the current price, the boundary included.
C12_LiquidationRule ==
    /\ \A id \in PerpIds :
          LET p == positions_box[id] IN
          /\ (PerpLiquidateError(id) = "ok")
                <=> Liquidatable(p.is_long, PerpGetOraclePrice(p.symbol), p.liquidation_price)
          /\ \A price \in RulePrices :
                /\ PerpShouldLiquidate(p, price)
                      <=> Liquidatable(p.is_long, price, p.liquidation_price)
                /\ price = p.liquidation_price => PerpShouldLiquidate(p, price)
    /\ \A id \in OuroIds, d \in IsLongReads :
          LET p == ouro_positions[id] IN
          ~p.is_open =>
             /\ (OuroLiquidateError(id, GoodOracleCall, d) = "ok")
                   <=> Liquidatable(OuroOpenedLong(p), OuroGetOraclePrice(p.symbol),
                                    p.liquidation_price)
             /\ \A price \in RulePrices :
                   OuroCheckLiquidation(p, price, d)
                      <=> Liquidatable(OuroOpenedLong(p), price, p.liquidation_price)

\* C13: a long that is liquidatable at a price is liquidatable at every lower
\* price, and a short that is liquidatable at a price at every higher price.
C13_LiquidationMonotone ==
    /\ \A id \in PerpIds, p1 \in RulePrices, p2 \in RulePrices :
          LET p == positions_box[id] IN
          (PerpShouldLiquidate(p, p1) /\ (IF p.is_long THEN p2 <= p1 ELSE p2 >= p1))
             => PerpShouldLiquidate(p, p2)
    /\ \A id \in OuroIds, p1 \in RulePrices, p2 \in RulePrices,
          d1 \in IsLongReads, d2 \in IsLongReads :
          LET p == ouro_positions[id] IN
          ( /\ ~p.is_open
            /\ OuroCheckLiquidation(p, p1, d1)
            /\ (IF OuroOpenedLong(p) THEN p2 <= p1 ELSE p2 >= p1) )
             => OuroCheckLiquidation(p, p2, d2)

\* C14: liquidate_position on a stored position that is not liquidatable at the
\* current price is rejected with 'Position is healthy' (and so changes nothing).
C14_HealthyNotLiquidated ==
    /\ \A id \in PerpIds :
          LET p == positions_box[id] IN
          ~Liquidatable(p.is_long, PerpGetOraclePrice(p.symbol), p.liquidation_price)
             => PerpLiquidateError(id) = "Position is healthy"
    /\ \A id \in OuroIds, d \in IsLongReads :
          LET p == ouro_positions[id] IN
          ( /\ ~p.is_open
            /\ ~Liquidatable(OuroOpenedLong(p), OuroGetOraclePrice(p.symbol),
                             p.liquidation_price) )
             => OuroLiquidateError(id, GoodOracleCall, d) = "Position is healthy"

\* C15: an accepted liquidate_position makes exactly one transfer, the fixed
\* fraction of the position's margin to the caller (margin * liquidation_fee_ratio
\* / 10000 in PerpetualDEX, 5% in OuroDEX), removes the position, and in
\* PerpetualDEX takes the position's size off the total of its own side only.
C15_LiquidationEffect ==
    [][(last'.op = "liquidate_position" /\ last' # last) =>
          /\ \A sender \in Accounts :
                (liquidate_position(sender, last'.id)
                   /\ PerpLiquidateError(last'.id) = "ok") =>
                   LET p == positions_box[last'.id] IN
                   /\ last'.transfers =
                         <<<<sender, (p.margin * liquidation_fee_ratio) \div 10000>>>>
                   /\ last'.id \notin DOMAIN positions_box'
                   /\ GetTotal(total_long_positions', p.symbol) =
                         GetTotal(total_long_positions, p.symbol)
                            - (IF p.is_long THEN p.size ELSE 0)
                   /\ GetTotal(total_short_positions', p.symbol) =
                         GetTotal(total_short_positions, p.symbol)
                            - (IF p.is_long THEN 0 ELSE p.size)
          /\ \A sender \in Accounts, oc \in OracleCalls, d \in IsLongReads :
                (ouro_liquidate_position(sender, last'.id, oc, d)
                   /\ OuroLiquidateError(last'.id, oc, d) = "ok") =>
                   LET p == ouro_positions[last'.id] IN
                   /\ last'.transfers = <<<<sender, (p.margin * 5) \div 100>>>>
                   /\ last'.id \notin DOMAIN ouro_positions'
          /\ \E sender \in Accounts :
                \/ liquidate_position(sender, last'.id)
                \/ \E oc \in OracleCalls, d \in IsLongReads :
                      ouro_liquidate_position(sender, last'.id, oc, d)]_vars

\* the creator has liquidated alice's PerpetualDEX position of margin 200 for a
\* reward of 10, and the position and its open interest are gone
C15_Witness ==
    /\ contract = "PerpetualDEX"
    /\ last.op = "liquidate_position"
    /\ last.transfers = <<<<Creator, 10>>>>
    /\ last.id \notin PerpIds
    /\ GetTotal(total_long_positions, "ETH") + GetTotal(total_short_positions, "ETH") = 0

\* C16: an open_position whose leverage is 0 or above the configured limit is
\* rejected, whatever the payment; the position an accepted open has just stored
\* has 0 < leverage <= the limit in force.
C16_BadLeverageRejected ==
    /\ \A leverage \in PerpLeverages, pay \in Payments(PerpAmounts) :
          (leverage = 0 \/ leverage > max_leverage)
             => PerpOpenError(leverage, pay) # "ok"
    /\ \A leverage \in OuroLeverages, pay \in Payments(OuroAmounts), oc \in OracleCalls :
          (leverage = 0 \/ leverage > config.leverage_limit)
             => OuroOpenError(leverage, pay, oc) # "ok"
    /\ (contract = "PerpetualDEX" /\ last.op = "open_position") =>
          /\ last.id \in PerpIds
          /\ positions_box[last.id].leverage > 0
          /\ positions_box[last.id].leverage <= max_leverage
    /\ (contract = "OuroDEX" /\ last.op = "open_position") =>
          /\ last.id \in OuroIds
          /\ ouro_positions[last.id].leverage > 0
          /\ ouro_positions[last.id].leverage <= config.leverage_limit

\* the admin has lowered max_leverage to 10 and a position was opened since: an
\* open at leverage 100, or at leverage 0, with a well-formed payment is rejected
C16_Witness ==
    /\ contract = "PerpetualDEX"
    /\ max_leverage = 10
    /\ last.op = "open_position"
    /\ positions_box[last.id].leverage = 1
    /\ \A leverage \in {0, 100} :
          PerpOpenError(leverage, [receiver |-> AppAddress, asset_id |-> usdc_asset_id,
                                   amount |-> 200]) = "Invalid leverage"

\* C17: an open_position whose margin payment is of amount 0 is rejected, and
\* every stored position has a margin greater than 0.
C17_ZeroMarginRejected ==
    /\ \A leverage \in PerpLeverages, pay \in Payments(PerpAmounts) :
          pay.amount = 0 => PerpOpenError(leverage, pay) # "ok"
    /\ \A leverage \in OuroLeverages, pay \in Payments(OuroAmounts), oc \in OracleCalls :
          pay.amount = 0 => OuroOpenError(leverage, pay, oc) # "ok"
    /\ \A id \in PerpIds : positions_box[id].margin > 0
    /\ \A id \in OuroIds : ouro_positions[id].margin > 0

\* C18: every stored position has 0 < leverage <= the maximum leverage now
\* configured (max_leverage in PerpetualDEX, config.leverage_limit in OuroDEX).
C18_LeverageWithinLimit ==
    /\ \A id \in PerpIds :
          positions_box[id].leverage > 0 /\ positions_box[id].leverage <= max_leverage
    /\ \A id \in OuroIds :
          /\ ouro_positions[id].leverage > 0
          /\ ouro_positions[id].leverage <= config.leverage_limit

\* C19: every stored position has size = margin * leverage, all three read from
\* the same record.
C19_SizeIsMarginTimesLeverage ==
    /\ \A id \in PerpIds :
          positions_box[id].size = positions_box[id].margin * positions_box[id].leverage
    /\ \A id \in OuroIds :
          ouro_positions[id].size = ouro_positions[id].margin * ouro_positions[id].leverage

\* C20: a close_position by an account other than the stored owner is rejected
\* with 'Not position owner' (and so pays nothing and changes nothing), and
\* every transfer an accepted close makes goes to the position's stored owner.
C20_OnlyOwnerCloses ==
    [][/\ \A id \in PerpIds, sender \in Accounts :
             sender # positions_box[id].trader
                => PerpCloseError(sender, id) = "Not position owner"
       /\ \A id \in OuroIds, sender \in Accounts, oc \in OracleCalls :
             sender # ouro_positions[id].holder
                => OuroCloseError(sender, id, oc) = "Not position owner"
       /\ (IsClose(last') /\ last' # last) =>
             \A i \in 1 .. Len(last'.transfers) :
                IF contract = "PerpetualDEX"
                THEN /\ last'.id \in PerpIds
                     /\ last'.transfers[i][1] = positions_box[last'.id].trader
                ELSE /\ last'.id \in OuroIds
                     /\ last'.transfers[i][1] = ouro_positions[last'.id].holder]_vars

\* alice has closed one of her positions and been paid, while the creator's
\* close of her other position would be rejected
C20_Witness ==
    /\ IsClose(last)
    /\ Len(last.transfers) = 1
    /\ last.transfers[1][1] = "alice"
    /\ last.transfers[1][2] > 0
    /\ \E id \in PerpIds :
          /\ positions_box[id].trader = "alice"
          /\ PerpCloseError(Creator, id) = "Not position owner"
          /\ PerpCloseError("alice", id) = "ok"

\* the symbols whose funding record the step wrote
FundingWritten(symbol) ==
    /\ symbol \in DOMAIN funding_rates_box'
    /\ symbol \notin DOMAIN funding_rates_box
          \/ funding_rates_box'[symbol] # funding_rates_box[symbol]

\* the sum of the rates passed so far, as the record holds it before the step
FundingSumBefore(symbol) ==
    IF symbol \in DOMAIN funding_rates_box
    THEN funding_rates_box[symbol].cumulative_funding
    ELSE 0

\* C21: every update_funding_rate call, the first one for a symbol included,
\* leaves cumulative_funding equal to the sum before the call plus the rate it
\* passed (so the stored value is the signed sum of all rates passed, starting
\* from 0, unclamped), and stamps the record with the time of the call.
C21_CumulativeIsSumOfRates ==
    [][\A symbol \in Symbols :
          FundingWritten(symbol) =>
             /\ funding_rates_box'[symbol].cumulative_funding =
                    FundingSumBefore(symbol) + funding_rates_box'[symbol].rate
             /\ funding_rates_box'[symbol].timestamp = now]_vars

\* the cap on a symbol's funding rate: the market's max_funding_rate, and the
\* default one where no market is stored for the symbol
MaxRateOf(symbol) ==
    IF symbol \in DOMAIN markets_box
    THEN markets_box[symbol].max_funding_rate
    ELSE default_max_rate

\* C23: the funding rate stored for a symbol never exceeds, in magnitude, the
\* maximum funding rate of that symbol's market.
C23_StoredRateWithinCap ==
    \A symbol \in DOMAIN funding_rates_box :
       Abs(funding_rates_box[symbol].rate) <= MaxRateOf(symbol)

\* the interval since last_update has elapsed for an initialized market
IntervalElapsed(symbol, last_update) ==
    now - last_update >= markets_box[symbol].funding_interval

\* C22: for an initialized market, should_update_funding(symbol, last_update)
\* returns true exactly when now - last_update >= the market's
\* funding_interval: whenever the interval has elapsed the call is accepted and
\* answers true, and every accepted call that answers true has it elapsed.
C22_ShouldUpdateIffIntervalElapsed ==
    [][\A symbol \in DOMAIN markets_box, last_update \in Times :
          /\ IntervalElapsed(symbol, last_update) =>
                /\ ShouldUpdateFundingError(symbol, last_update) = "ok"
                /\ ShouldUpdateFunding(symbol, last_update)
          /\ (/\ ShouldUpdateFundingError(symbol, last_update) = "ok"
              /\ should_update_funding(symbol, last_update)) =>
                /\ last'.op = "should_update_funding"
                /\ last'.ret = 1 <=> IntervalElapsed(symbol, last_update)]_vars

\* should_update_funding has just answered true for the initialized market,
\* one interval after the update at time 0
C22_Witness ==
    /\ "ETH" \in DOMAIN markets_box
    /\ markets_box["ETH"].funding_interval = 1
    /\ now = 1
    /\ last.op = "should_update_funding"
    /\ last.ret = 1

\* the cumulative funding stored for a symbol, signed and unclamped
CumulativeFunding(symbol) ==
    IF symbol \in DOMAIN funding_rates_box
    THEN funding_rates_box[symbol].cumulative_funding
    ELSE 0

\* the stored positions that their owner can close in this state
PerpClosable == {id \in PerpIds : PerpCloseError(positions_box[id].trader, id) = "ok"}

\* C24: the funding fee a close applies is size * (cumulative funding at the
\* close - funding index snapshotted at the open) / 10000, whatever the signs
\* of the rates accrued since the open.
C24_FundingFeeFormula ==
    \A id \in PerpClosable :
       LET p == positions_box[id] IN
       PerpCloseAmounts(p).funding_fee =
          FloorDiv(p.size * (CumulativeFunding(p.symbol) - p.funding_index), 10000)

\* the change of the cumulative funding since the position was opened
FundingMove(position) == CumulativeFunding(position.symbol) - position.funding_index

\* the side that pays funding: longs after a rise, shorts after a fall
PaysFunding(position) ==
    \/ FundingMove(position) > 0 /\ position.is_long
    \/ FundingMove(position) < 0 /\ ~position.is_long

\* C25: funding is paid by one side to the other. After a rise of the
\* cumulative funding index a long's close payout is reduced by the funding
\* fee and a short's is not; after a fall the short's is reduced and the
\* long's is not.
C25_FundingPaidByOneSide ==
    \A id \in PerpClosable :
       LET p == positions_box[id]
           a == PerpCloseAmounts(p)
           owed == FloorDiv(p.size * Abs(FundingMove(p)), 10000)
       IN /\ PaysFunding(p) => a.payout = Max(0, a.margin + a.pnl - a.fee - owed)
          /\ (~PaysFunding(p) /\ FundingMove(p) # 0) =>
                a.payout >= Max(0, a.margin + a.pnl - a.fee)

\* nothing a call can store or transfer has changed
NothingCommitted == UNCHANGED <<perpVars, ouroVars, last>>

\* a step of the call A that commits something is possible
Commits(A) == ENABLED (A /\ ~NothingCommitted)

\* no PerpetualDEX call that fails one of its checks can commit anything
PerpRejectedCallsCommitNothing ==
    /\ \A sender \in Accounts, ml \in PerpMaxLeverageInputs :
          SetupProtocolError(sender) # "ok" =>
             ~Commits(setup_protocol(sender, Creator, 0, 50, ml))
    /\ \A sender \in Traders, symbol \in Symbols, leverage \in PerpLeverages,
          is_long \in BOOLEAN, pay \in Payments(PerpAmounts) :
          PerpOpenError(leverage, pay) # "ok" =>
             ~Commits(open_position(sender, symbol, leverage, is_long, pay))
    /\ \A sender \in Accounts, id \in IdSpace :
          /\ PerpCloseError(sender, id) # "ok" => ~Commits(close_position(sender, id))
          /\ PerpLiquidateError(id) # "ok" => ~Commits(liquidate_position(sender, id))
    /\ \A sender \in Accounts, symbol \in Symbols, rate \in PerpFundingRates :
          UpdateFundingRateError(sender) # "ok" =>
             ~Commits(update_funding_rate(sender, symbol, rate))

\* the same for the calls of OuroDEX
OuroRejectedCallsCommitNothing ==
    /\ \A sender \in Accounts, price \in OuroPrices :
          /\ SetupContractError(sender) # "ok" =>
                ~Commits(setup_contract(sender, 9, 0, 0, 10, 1000, price))
          /\ SetAssetPriceError(sender) # "ok" => ~Commits(set_asset_price(sender, price))
    /\ \A sender \in Traders, symbol \in Symbols, leverage \in OuroLeverages,
          is_long \in BOOLEAN, pay \in Payments(OuroAmounts), oc \in OracleCalls :
          OuroOpenError(leverage, pay, oc) # "ok" =>
             ~Commits(ouro_open_position(sender, symbol, leverage, is_long, pay, oc))
    /\ \A sender \in Accounts, id \in IdSpace, oc \in OracleCalls, d \in IsLongReads :
          /\ OuroCloseError(sender, id, oc) # "ok" =>
                ~Commits(ouro_close_position(sender, id, oc, d))
          /\ OuroLiquidateError(id, oc, d) # "ok" =>
                ~Commits(ouro_liquidate_position(sender, id, oc, d))

C28_InitializeExistingRejected ==
    [][\A symbol \in DOMAIN markets_box, sender \in Accounts, b \in BaseRates,
          m \in MaxRates, i \in Intervals :
          /\ InitializeMarketError(sender) # "ok"
          /\ initialize_market(sender, symbol, b, m, i) => UNCHANGED markets_box]_vars

\* the pair {a, b} has been registered by add_order
Registered(a, b) == a # b /\ OrderError(a, b) = "ok"

\* the keys of the boxes that hold the pair {a, b} or its pool, in either order
KeysOf(a, b) ==
    {k \in DOMAIN book_boxes : <<k[2], k[3]>> \in {<<a, b>>, <<b, a>>}}

\* C30: the order book orders the two asset ids (smaller first) on every
\* write and every lookup: once add_order(a, b, ...) has registered a pair,
\* there is one pair record and one pool record for it, and order,
\* get_pool_info, update_fee_rate, deactivate_pair and update_pool_liquidity
\* called with (a, b) and with (b, a) read the same record, fail alike and
\* write the same boxes.
C30_SameRecordEitherOrder ==
    \A a \in Assets, b \in Assets :
       Registered(a, b) =>
          /\ KeysOf(a, b) = {OrderKey(a, b), GetPoolInfoKey(a, b)}
          /\ OrderKey(a, b) = OrderKey(b, a)
          /\ GetPoolInfoKey(a, b) = GetPoolInfoKey(b, a)
          /\ OrderError(b, a) = "ok" /\ Order(a, b) = Order(b, a)
          /\ GetPoolInfoError(a, b) = "ok" /\ GetPoolInfoError(b, a) = "ok"
          /\ GetPoolInfo(a, b) = GetPoolInfo(b, a)
          /\ \A sender \in BookSenders :
                /\ \A f \in FeeRates :
                      /\ UpdateFeeRateError(sender, a, b, f) =
                            UpdateFeeRateError(sender, b, a, f)
                      /\ UpdateFeeRateBoxes(a, b, f) = UpdateFeeRateBoxes(b, a, f)
                /\ DeactivatePairError(sender, a, b) = DeactivatePairError(sender, b, a)
                /\ DeactivatePairBoxes(a, b) = DeactivatePairBoxes(b, a)
                /\ \A n \in LiquidityAmounts, is_add \in BOOLEAN :
                      /\ UpdatePoolLiquidityError(sender, a, b, n, is_add) =
                            UpdatePoolLiquidityError(sender, b, a, n, is_add)
                      /\ UpdatePoolLiquidityBoxes(a, b, n, is_add) =
                            UpdatePoolLiquidityBoxes(b, a, n, is_add)

\* a registered pair has since had its fee rate changed, its liquidity raised
\* and been deactivated, and has just been read back as (1, 2)
C30_Witness ==
    /\ Registered(2, 1)
    /\ ~Order(1, 2).is_active
    /\ GetPoolInfo(1, 2).fee_rate = 100
    /\ GetPoolInfo(1, 2).total_liquidity = 2
    /\ last.op = "order"
    /\ last.id = <<1, 2>>

\* the price a DEX call uses: _get_oracle_price of the contract it runs on
PriceUsed(symbol) ==
    IF contract = "PerpetualDEX" THEN PerpGetOraclePrice(symbol)
    ELSE OuroGetOraclePrice(symbol)

\* the oracle holds a published price for the symbol that is not too old, and
\* it is the given price
PublishedAndFresh(symbol, price) ==
    IF contract = "PerpetualDEX"
    THEN GetPriceError(symbol) = "ok" /\ GetPrice(symbol).price = price
    ELSE OraclePriceError(symbol) = "ok" /\ OraclePrice(symbol) = price

\* C29: whenever open_position, close_position or liquidate_position is
\* accepted, the price it used is the price published to the oracle for the
\* symbol, and that price is no older than the maximum price age; with no such
\* price the operation fails.
C29_PriceIsPublishedAndFresh ==
    [][(last' # last /\ last'.op \in {"open_position", "close_position",
                                     "liquidate_position"}) =>
          \A symbol \in Symbols : PublishedAndFresh(symbol, PriceUsed(symbol))]_vars

\* the accounts other than the admin
NonAdmins == Accounts \ {Creator}

\* the step leaves the configuration as it was: the protocol parameters of
\* both DEX variants, the funding records, the default funding parameters and
\* the parameters of every market stored
ConfigKept ==
    /\ UNCHANGED <<fee_collector, trading_fee, max_leverage, usdc_asset_id,
                   funding_rates_box, oracle_contract, ouro_usdc_asset_id, config,
                   perp_dex_app_id, default_base_rate, default_max_rate,
                   default_interval>>
    /\ \A symbol \in DOMAIN markets_box :
          /\ symbol \in DOMAIN markets_box'
          /\ markets_box'[symbol].base_funding_rate = markets_box[symbol].base_funding_rate
          /\ markets_box'[symbol].max_funding_rate = markets_box[symbol].max_funding_rate
          /\ markets_box'[symbol].funding_interval = markets_box[symbol].funding_interval

\* a step of the call A that changes the state, or the configuration, is possible
ChangesState(A) == ENABLED (A /\ ~UNCHANGED vars)
ChangesConfig(A) == ENABLED (A /\ ~ConfigKept)

PerpConfigAdminOnly ==
    \A sender \in NonAdmins :
       /\ SetupProtocolError(sender) # "ok"
       /\ UpdateFundingRateError(sender) # "ok"
       /\ \A ml \in PerpMaxLeverageInputs :
             ~ChangesState(setup_protocol(sender, Creator, 0, 50, ml))
       /\ \A symbol \in Symbols, rate \in PerpFundingRates :
             ~ChangesState(update_funding_rate(sender, symbol, rate))
       /\ \A symbol \in Symbols, leverage \in PerpLeverages, is_long \in BOOLEAN,
             pay \in Payments(PerpAmounts) :
             ~ChangesConfig(open_position(sender, symbol, leverage, is_long, pay))
       /\ \A id \in IdSpace :
             /\ ~ChangesConfig(close_position(sender, id))
             /\ ~ChangesConfig(liquidate_position(sender, id))

OuroConfigAdminOnly ==
    \A sender \in NonAdmins :
       /\ SetupContractError(sender) # "ok"
       /\ SetAssetPriceError(sender) # "ok"
       /\ \A price \in OuroPrices :
             /\ ~ChangesState(setup_contract(sender, 9, 0, 0, 10, 1000, price))
             /\ ~ChangesState(set_asset_price(sender, price))
       /\ \A symbol \in Symbols, leverage \in OuroLeverages, is_long \in BOOLEAN,
             pay \in Payments(OuroAmounts), oc \in OracleCalls :
             ~ChangesConfig(ouro_open_position(sender, symbol, leverage, is_long, pay, oc))
       /\ \A id \in IdSpace, oc \in OracleCalls, d \in IsLongReads :
             /\ ~ChangesConfig(ouro_close_position(sender, id, oc, d))
             /\ ~ChangesConfig(ouro_liquidate_position(sender, id, oc, d))

FundConfigAdminOnly ==
    \A sender \in NonAdmins :
       /\ InitializeMarketError(sender) # "ok"
       /\ SetDefaultParamsError(sender) # "ok"
       /\ ~ChangesState(set_perp_dex_app_id(sender, 5))
       /\ \A symbol \in Symbols, b \in BaseRates, m \in MaxRates, i \in Intervals :
             /\ UpdateMarketParamsError(sender, symbol) # "ok"
             /\ ~ChangesState(initialize_market(sender, symbol, b, m, i))
             /\ ~ChangesState(update_market_params(sender, symbol, b, m, i))
       /\ \A p \in DefaultParams : ~ChangesState(set_default_params(sender, p[1], p[2], p[3]))
       /\ \A app \in {0, 5}, symbol \in Symbols, oi \in OpenInterests :
             ~ChangesConfig(update_open_interest(sender, app, symbol, oi[1], oi[2]))
       /\ \A symbol \in Symbols :
             /\ ~ChangesConfig(calculate_funding_rate(symbol))
             /\ \A last_update \in Times :
                   ~ChangesConfig(should_update_funding(symbol, last_update))

StatedPnl(is_long, entry_price, current_price, size) ==
    IF is_long THEN TruncDiv((current_price - entry_price) * size, entry_price)
    ELSE TruncDiv((entry_price - current_price) * size, entry_price)

\* C31: the PnL a close realizes is (current_price - entry_price) * size /
\* entry_price for a long and (entry_price - current_price) * size /
\* entry_price for a short, and the payout is margin + pnl - fees (floored at
\* 0); a long with margin 100 and leverage 10 entered at 4000_00000000 and
\* closed at 4400_00000000 realizes 100.
C31_RealizedPnl ==
    /\ \A id \in PerpClosable :
          LET p == positions_box[id]
              a == PerpCloseAmounts(p)
          IN /\ a.pnl = StatedPnl(p.is_long, p.entry_price,
                                  PerpGetOraclePrice(p.symbol), p.size)
             /\ a.payout = Max(0, Deposited(p) + a.pnl - a.funding_fee - a.fee)
    /\ (contract = "OuroDEX" /\ IsClose(last)) =>
          LET p == ouro_positions[last.id]
              a == last.closed[1]
          IN /\ a.pnl = StatedPnl(OuroOpenedLong(p), p.entry_price,
                                  OuroGetOraclePrice(p.symbol), p.size)
             /\ last.ret = Max(0, Deposited(p) + a.pnl)

\* the prices _calculate_pnl is compared at: the entry price, one price unit
\* and 10% either side of it
PnlPrices == {36000, 39999, 40000, 40001, 44000}

\* the same position taken in the other direction
Opposite(position) == [position EXCEPT !.is_long = ~position.is_long]

\* C32: _calculate_pnl truncates toward zero for gains and losses alike: at
\* the same entry price, current price and size the PnL of a long is the
\* negation of the PnL of a short, and the magnitude of a PnL never exceeds
\* that of the exact quotient.
C32_PnlTruncatesTowardZero ==
    /\ \A id \in PerpIds, current_price \in PnlPrices :
          LET p == positions_box[id]
              pnl == PerpCalculatePnl(p, current_price)
          IN /\ pnl = -PerpCalculatePnl(Opposite(p), current_price)
             /\ Abs(pnl) * p.entry_price <= Abs(current_price - p.entry_price) * p.size
    /\ \A id \in OuroIds, current_price \in PnlPrices :
          LET p == ouro_positions[id]
              pnl == OuroCalculatePnl(p, current_price, TRUE)
          IN /\ pnl = -OuroCalculatePnl(p, current_price, FALSE)
             /\ Abs(pnl) * p.entry_price <= Abs(current_price - p.entry_price) * p.size

\* C33: liquidatability is not latched.  When set_asset_price moves the price
\* out of the liquidation range of a stored OuroDEX position that is not closed
\* (the price was inside the range before the step), then after the step every
\* liquidate_position on it is rejected with 'Position is healthy' and
\* close_position by its holder is accepted.
C33_LiquidatabilityNotLatched ==
    [][(contract = "OuroDEX" /\ config'.asset_price # config.asset_price) =>
          \A id \in OuroIds :
             LET p == ouro_positions[id] IN
             ( /\ ~p.is_open
               /\ Liquidatable(OuroOpenedLong(p), config.asset_price,
                               p.liquidation_price)
               /\ ~Liquidatable(OuroOpenedLong(p), config'.asset_price,
                                p.liquidation_price) )
                => /\ \A d \in IsLongReads :
                         OuroLiquidateError(id, GoodOracleCall, d)' = "Position is healthy"
                   /\ OuroCloseError(p.holder, id, GoodOracleCall)' = "ok"]_vars

\* C34: the reads that promise freshness succeed exactly when a record is
\* stored for the symbol and now - its timestamp <= max_price_age, and an
\* accepted read returns what is stored (PriceOracle.get_price the record,
\* OuroOracle.price its price); is_price_fresh answers true exactly in the
\* states where that read would succeed, and false for an unknown symbol.
C34_FreshReads ==
    /\ \A symbol \in OracleSymbols :
          LET stored == symbol \in DOMAIN prices_box
              fresh == stored /\ now - prices_box[symbol].timestamp <= max_price_age
          IN /\ (GetPriceError(symbol) = "ok") <=> fresh
             /\ IsPriceFreshError(symbol) = "ok"
             /\ IsPriceFresh(symbol) <=> (GetPriceError(symbol) = "ok")
             /\ ~stored => ~IsPriceFresh(symbol)
    /\ \A symbol \in OracleSymbols :
          LET stored == OraclePriceKey(symbol) \in DOMAIN oracle_boxes
              fresh == stored /\ now - oracle_boxes[OraclePriceKey(symbol)].timestamp
                                    <= oracle_config.max_price_age
          IN /\ (OraclePriceError(symbol) = "ok") <=> fresh
             /\ OracleIsPriceFresh(symbol) <=> (OraclePriceError(symbol) = "ok")
             /\ ~stored => ~OracleIsPriceFresh(symbol)
    /\ (contract = "PriceOracle" /\ last.op = "get_price") =>
          /\ last.id[1] \in DOMAIN prices_box
          /\ last.closed[1].symbol = last.id[1]
          /\ now - last.closed[1].timestamp >= 0
    /\ (contract = "PriceOracle" /\ last.op = "is_price_fresh") =>
          (last.ret => last.id[1] \in DOMAIN prices_box)
    /\ (contract = "OuroOracle" /\ last.op = "is_price_fresh") =>
          (last.ret => OraclePriceKey(last.id[1]) \in DOMAIN oracle_boxes)

\* is_price_fresh has answered false for a symbol whose price is stored but
\* older than max_price_age
C34_Witness ==
    /\ last.op = "is_price_fresh"
    /\ ~last.ret
    /\ \/ /\ contract = "PriceOracle"
          /\ last.id[1] \in DOMAIN prices_box
          /\ now - prices_box[last.id[1]].timestamp > max_price_age
          /\ GetPriceError(last.id[1]) = "Price data too old"
       \/ /\ contract = "OuroOracle"
          /\ OraclePriceKey(last.id[1]) \in DOMAIN oracle_boxes
          /\ OraclePriceError(last.id[1]) = "Price data stale"

\* the sum of size over the stored PerpetualDEX positions with the ids given
RECURSIVE SumOfSizes(_)
SumOfSizes(ids) ==
    IF ids = {} THEN 0
    ELSE LET id == CHOOSE x \in ids : TRUE
         IN positions_box[id].size + SumOfSizes(ids \ {id})

StoredOnSide(symbol, is_long) ==
    {id \in PerpIds : positions_box[id].symbol = symbol /\ positions_box[id].is_long = is_long}

\* C35: in PerpetualDEX total_long_positions[symbol] is the sum of size over the
\* stored long positions of the symbol and total_short_positions[symbol] the sum
\* of size over its stored short positions, in every reachable state.
C35_TotalsAreSumsOfStoredSizes ==
    \A symbol \in Symbols :
       /\ GetTotal(total_long_positions, symbol) = SumOfSizes(StoredOnSide(symbol, TRUE))
       /\ GetTotal(total_short_positions, symbol) = SumOfSizes(StoredOnSide(symbol, FALSE))

\* C36: a PerpetualDEX position that open_position has just stored is not
\* liquidatable at its own entry price: with the oracle price unchanged,
\* liquidate_position on it is rejected with 'Position is healthy', for every
\* leverage the open accepted and both directions.
C36_FreshPositionIsHealthy ==
    (contract = "PerpetualDEX" /\ last.op = "open_position") =>
       /\ last.id \in PerpIds
       /\ PerpGetOraclePrice(positions_box[last.id].symbol) =
             positions_box[last.id].entry_price
       /\ PerpLiquidateError(last.id) = "Position is healthy"

\* an amount the model carries in units of PRICE_UNIT (OuroDEX derives the stored
\* margin from the price), in units of the collateral asset
InCollateralUnits(amount) == amount * 10000000

\* C37: per-position solvency at unchanged price.  For a position that
\* open_position has just stored for a deposited margin m, the opening fee that
\* was transferred plus what close_position, or liquidate_position, would
\* transfer now (price and funding index unchanged) never exceeds m.
C37_SolventAtUnchangedPrice ==
    /\ (contract = "PerpetualDEX" /\ last.op = "open_position") =>
          LET p == positions_box[last.id]
              m == Deposited(p)
              opening_fee == last.transfers[1][2]
          IN /\ PerpCloseError(p.trader, last.id) = "ok" =>
                   opening_fee + PerpCloseAmounts(p).payout <= m
             /\ PerpLiquidateError(last.id) = "ok" =>
                   opening_fee + (p.margin * liquidation_fee_ratio) \div 10000 <= m
    /\ (contract = "OuroDEX" /\ last.op = "open_position") =>
          LET p == ouro_positions[last.id]
              m == Deposited(p)
          IN \A d \in IsLongReads :
                /\ OuroCloseError(p.holder, last.id, GoodOracleCall) = "ok" =>
                      InCollateralUnits(OuroCloseAmounts(p, d).payout) <= m
                /\ OuroLiquidateError(last.id, GoodOracleCall, d) = "ok" =>
                      InCollateralUnits((p.margin * 5) \div 100) <= m

\* C38: an open position can always be closed by its owner: in every reachable
\* state of PerpetualDEX, close_position called by the trader of a stored
\* position is accepted, whatever update_funding_rate calls happened since the
\* position was opened.
C38_OwnerCanAlwaysClose ==
    \A id \in PerpIds : PerpCloseError(positions_box[id].trader, id) = "ok"

\* the imbalance measure of calculate_funding_rate for a non-zero open interest
ImbalanceMeasure(long_oi, short_oi) ==
    FloorDiv(FloorDiv(long_oi * 10000, long_oi + short_oi) - 5000, 50)

\* C39: for a stored market with a non-negative base rate and every
\* open-interest pair, the imbalance measure lies in [-100, 100] and the
\* magnitude of calculate_funding_rate exceeds neither base_funding_rate nor
\* max_funding_rate: |rate| <= min(base_funding_rate, max_funding_rate).
C39_RateWithinBaseRate ==
    \A symbol \in DOMAIN markets_box, oi \in OpenInterests :
       LET market == [markets_box[symbol] EXCEPT !.total_long_oi = oi[1],
                                                 !.total_short_oi = oi[2]]
           rate == CalculateFundingRate(market)
       IN market.base_funding_rate >= 0 =>
             /\ oi[1] + oi[2] > 0 =>
                   (ImbalanceMeasure(oi[1], oi[2]) >= -100
                      /\ ImbalanceMeasure(oi[1], oi[2]) <= 100)
             /\ Abs(rate) <= Min(market.base_funding_rate, market.max_funding_rate)

============================================================================
